---- MODULE Spec2Model ----
(***************************************************************************)
(* Verification model of chatgpt-word-copier.                              *)
(*                                                                         *)
(* The converters of src/lib are pure functions.  Each is an operator      *)
(* here, computed the way the JavaScript computes it, and is exercised by  *)
(* a specification whose initial states draw the call's arguments from a   *)
(* bounded set and whose action performs the call.                         *)
(*                                                                         *)
(* A JavaScript string is a sequence of characters.  A printable ASCII     *)
(* character is the one-character string; any other character is named by *)
(* its code point ("U+0000", "U+03C0").                                    *)
(***************************************************************************)
EXTENDS Naturals, Sequences, FiniteSets, TLC

VARIABLES
    fn,     \* the exported function being called
    arg,    \* its argument(s)
    ret,    \* what the call produced
    pc,     \* "call" before the call is made, "done" after it returned or threw
    dom,    \* the caller's live DOM tree
    env     \* the globals the call runs with

vars == <<fn, arg, ret, pc, dom, env>>

\* ----------------------------------------------------------------- bounds

\* Longest string handed to escapeXml, and longest unparseable MathML string.
MaxLen == 3

\* Most child nodes of the MathML element under conversion.
MaxKids == 3

\* Most lexical pieces (a command, a brace, a script sign, a letter, a space)
\* of a LaTeX string.
MaxParts == 3

\* Most child nodes of an element whose inline content is extracted.
MaxInline == 2

\* Most sections (head, body, foot, row) of a table.
MaxSections == 3

\* ---------------------------------------------------------------- helpers

\* All sequences over S of length at most n.
SeqsUpTo(S, n) == UNION {[1..k -> S] : k \in 0..n}

RECURSIVE Concat(_)
\* Concatenation of a sequence of sequences (Array.prototype.join('')).
Concat(ss) == IF ss = <<>> THEN <<>> ELSE Head(ss) \o Concat(Tail(ss))

\* The value a call leaves behind: either it returned val, or it threw.
Returned(v) == [threw |-> FALSE, val |-> v]
Threw == [threw |-> TRUE, val |-> <<>>]
NoRet == [threw |-> FALSE, val |-> <<>>]

\* A call that reaches no DOM tree, and one that reads no global.
NoDom == [tag |-> "#none"]
NoEnv == [api |-> "#none"]

\* ------------------------------------------------- mathml-to-omml.js: escapeXml

AMP == <<"&", "a", "m", "p", ";">>
LT == <<"&", "l", "t", ";">>
GT == <<"&", "g", "t", ";">>
QUOT == <<"&", "q", "u", "o", "t", ";">>
APOS == <<"&", "a", "p", "o", "s", ";">>

RECURSIVE ReplaceAll(_, _, _)
\* String.prototype.replace(/c/g, rep) for a one-character pattern c.
ReplaceAll(s, c, rep) ==
    IF s = <<>> THEN <<>>
    ELSE (IF Head(s) = c THEN rep ELSE <<Head(s)>>) \o ReplaceAll(Tail(s), c, rep)

\* A plausible slip: the ampersand pass runs last and escapes the entities again.
escapeXmlAmpLast(str) ==
    ReplaceAll(ReplaceAll(ReplaceAll(ReplaceAll(ReplaceAll(str,
        "<", LT), ">", GT), "\"", QUOT), "'", APOS), "&", AMP)

\* escapeXml on a string: five global replacements, the ampersand first.
escapeXml(str) ==
    ReplaceAll(ReplaceAll(ReplaceAll(ReplaceAll(ReplaceAll(str,
        "&", AMP), "<", LT), ">", GT), "\"", QUOT), "'", APOS)

\* A JavaScript value handed to escapeXml: null, undefined or a string.
JsNull == [t |-> "null", s |-> <<>>]
JsUndefined == [t |-> "undefined", s |-> <<>>]
JsString(s) == [t |-> "string", s |-> s]

\* The call escapeXml(v).  The body starts with str.replace(...): reading a
\* property of null or undefined throws a TypeError.
escapeXmlCall(v) ==
    IF v.t = "string" THEN Returned(escapeXml(v.s)) ELSE Threw

\* Characters of the strings handed to escapeXml: a letter, the semicolon, the
\* five reserved characters, TAB, two XML-illegal control characters and a
\* non-ASCII letter.
EscChars == {"a", ";", "&", "<", ">", "\"", "'", "\t", "U+0000", "U+007F", "U+03C0"}

EscapeArgs ==
    {JsNull, JsUndefined} \cup {JsString(s) : s \in SeqsUpTo(EscChars, MaxLen)}

InitEscape ==
    /\ fn = "escapeXml"
    /\ arg \in EscapeArgs
    /\ ret = NoRet
    /\ pc = "call"
    /\ dom = NoDom
    /\ env = NoEnv

CallEscapeXml ==
    /\ pc = "call"
    /\ fn = "escapeXml"
    /\ ret' = escapeXmlCall(arg)
    /\ pc' = "done"
    /\ UNCHANGED <<fn, arg, dom, env>>

NextEscape == CallEscapeXml

SpecEscape == InitEscape /\ [][NextEscape]_vars

\* ------------------------------------------ mathml-to-omml.js: OMML output

\* An OMML fragment is the sequence of its tags and character data, in the
\* order the JavaScript template strings write them.
Open(n) == [k |-> "open", n |-> n, v |-> <<>>]        \* <n>
Close(n) == [k |-> "close", n |-> n, v |-> <<>>]      \* </n>
Empty(n, v) == [k |-> "empty", n |-> n, v |-> v]      \* <n/> or <n m:val="v"/>
Text(s) == [k |-> "text", n |-> "", v |-> s]          \* character data

\* What stands in the output where escapeXml was handed a value that is not a
\* string (value.replace is not a function): the TypeError ends the call.
ThrowMark == [k |-> "throw", n |-> "TypeError", v |-> <<>>]

\* <w:rFonts w:ascii="Cambria Math" w:hAnsi="Cambria Math"/>
RFonts == Empty("w:rFonts", <<"Cambria Math", "Cambria Math">>)
RunFont == <<Open("w:rPr"), RFonts, Close("w:rPr")>>
CtrlPr == <<Open("m:ctrlPr")>> \o RunFont \o <<Close("m:ctrlPr")>>

\* makeRun(text): no caller passes italic or bold, so rPr is always ''.
makeRun(text) ==
    <<Open("m:r")>> \o RunFont
        \o <<Open("m:t"), Text(escapeXml(text)), Close("m:t"), Close("m:r")>>

\* ------------------------------------------- mathml-to-omml.js: MathML tree

\* getAttribute of an attribute the element does not carry.
Null == <<"#null">>
NoAttrs ==
    [display |-> Null, accent |-> Null, linethickness |-> Null,
     open |-> Null, close |-> Null, href |-> Null, encoding |-> Null,
     arialabel |-> Null, role |-> Null, testid |-> Null, processed |-> Null]

\* A DOM node: an element with its attributes and child nodes, or a text node.
\* cls is the element's class list (HTML only).
El(tag, attrs, kids) ==
    [tag |-> tag, attrs |-> attrs, cls |-> {}, text |-> <<>>, kids |-> kids]
Txt(s) == [tag |-> "#text", attrs |-> NoAttrs, cls |-> {}, text |-> s, kids |-> <<>>]
IsElement(n) == n.tag # "#text"

\* The local name, lower-cased and without prefix: tags are kept in that form.
localName(node) == node.tag
getChildElements(node) == SelectSeq(node.kids, IsElement)

RECURSIVE textContent(_)
textContent(node) ==
    IF node.tag = "#text" THEN node.text
    ELSE Concat([i \in 1..Len(node.kids) |-> textContent(node.kids[i])])

WhiteSpace == {" ", "\t", "\n", "\r"}
RECURSIVE TrimStart(_)
TrimStart(s) == IF s # <<>> /\ Head(s) \in WhiteSpace THEN TrimStart(Tail(s)) ELSE s
RECURSIVE TrimEnd(_)
TrimEnd(s) ==
    IF s # <<>> /\ s[Len(s)] \in WhiteSpace THEN TrimEnd(SubSeq(s, 1, Len(s) - 1)) ELSE s
\* String.prototype.trim
Trim(s) == TrimEnd(TrimStart(s))

\* ACCENT_MAP: own keys and their values.
ACCENT_MAP(c) ==
    CASE c \in {"^", "U+02C6", "U+0302"} -> "U+0302"
      [] c \in {"~", "U+02DC", "U+0303"} -> "U+0303"
      [] c \in {"U+00AF", "U+203E", "U+0304"} -> "U+0304"
      [] c \in {"U+02D9", "U+0307"} -> "U+0307"
      [] c \in {"U+00A8", "U+0308"} -> "U+0308"
      [] c \in {"U+2192", "U+20D7"} -> "U+20D7"
      [] c = "U+23DE" -> "U+23DE"
      [] c = "U+23DF" -> "U+23DF"
ACCENT_MAP_KEYS ==
    {"^", "U+02C6", "U+0302", "~", "U+02DC", "U+0303", "U+00AF", "U+203E", "U+0304",
     "U+02D9", "U+0307", "U+00A8", "U+0308", "U+2192", "U+20D7", "U+23DE", "U+23DF"}

KNOWN_ACCENTS ==
    {"U+0302", "U+0303", "U+0304", "U+0305", "U+0306", "U+0307", "U+0308",
     "U+030C", "U+0311", "U+20D7", "U+20D6", "U+20D1", "U+20E1",
     "U+00AF", "^", "~", "U+2192", "U+02D9", "U+00A8", "U+02C6", "U+02DC", "U+203E",
     "U+23DE", "U+23DF"}

narySymbols == {"U+2211", "U+220F", "U+222B", "U+222E", "U+22C3", "U+22C2", "U+222C", "U+222D"}

\* ACCENT_MAP and narySymbols are object literals: a lookup by a name that
\* Object.prototype defines ('constructor', 'toString', ...) finds a function,
\* which is truthy and is not a string.
ObjectPrototypeKeys == {<<"c", "o", "n", "s", "t", "r", "u", "c", "t", "o", "r">>}

\* m:val="${escapeXml(chr)}" with chr = ACCENT_MAP[overText] || overText
accentChr(overText) ==
    IF Len(overText) = 1 /\ overText[1] \in ACCENT_MAP_KEYS
    THEN Empty("m:chr", escapeXml(<<ACCENT_MAP(overText[1])>>))
    ELSE IF overText \in ObjectPrototypeKeys THEN ThrowMark
    ELSE Empty("m:chr", escapeXml(overText))

\* ------------------------------------------ mathml-to-omml.js: convertNode

RECURSIVE convertNode(_)

convertChildren(node) ==
    Concat([i \in 1..Len(node.kids) |-> convertNode(node.kids[i])])

\* children[i] ? convertNode(children[i]) : makeRun('')   (i counted from 1)
ChildOrEmptyRun(children, i) ==
    IF i <= Len(children) THEN convertNode(children[i]) ELSE makeRun(<<>>)

convertToken(node, tag) ==
    LET text == textContent(node)
    IN IF Trim(text) = <<>> THEN <<>> ELSE makeRun(text)

\* A fraction whose denominator is never closed.
convertFractionUnclosed(node) ==
    LET children == getChildElements(node)
        num == ChildOrEmptyRun(children, 1)
        den == ChildOrEmptyRun(children, 2)
    IN <<Open("m:f"), Open("m:fPr")>> \o CtrlPr \o <<Close("m:fPr"), Open("m:num")>>
           \o num \o <<Close("m:num"), Open("m:den")>> \o den \o <<Close("m:f")>>

convertFraction(node) ==
    LET children == getChildElements(node)
        num == ChildOrEmptyRun(children, 1)
        den == ChildOrEmptyRun(children, 2)
        fPr == IF node.attrs.linethickness = <<"0">>
               THEN <<Open("m:fPr"), Empty("m:type", <<"n", "o", "B", "a", "r">>)>>
                        \o CtrlPr \o <<Close("m:fPr")>>
               ELSE <<Open("m:fPr")>> \o CtrlPr \o <<Close("m:fPr")>>
    IN <<Open("m:f")>> \o fPr \o <<Open("m:num")>> \o num
           \o <<Close("m:num"), Open("m:den")>> \o den \o <<Close("m:den"), Close("m:f")>>

convertSuperscript(node) ==
    LET children == getChildElements(node)
        base == ChildOrEmptyRun(children, 1)
        sup == ChildOrEmptyRun(children, 2)
    IN <<Open("m:sSup"), Open("m:sSupPr")>> \o CtrlPr \o <<Close("m:sSupPr"), Open("m:e")>>
           \o base \o <<Close("m:e"), Open("m:sup")>> \o sup
           \o <<Close("m:sup"), Close("m:sSup")>>

convertSubscript(node) ==
    LET children == getChildElements(node)
        base == ChildOrEmptyRun(children, 1)
        sub == ChildOrEmptyRun(children, 2)
    IN <<Open("m:sSub"), Open("m:sSubPr")>> \o CtrlPr \o <<Close("m:sSubPr"), Open("m:e")>>
           \o base \o <<Close("m:e"), Open("m:sub")>> \o sub
           \o <<Close("m:sub"), Close("m:sSub")>>

convertSubSuperscript(node) ==
    LET children == getChildElements(node)
        base == ChildOrEmptyRun(children, 1)
        sub == ChildOrEmptyRun(children, 2)
        sup == ChildOrEmptyRun(children, 3)
    IN <<Open("m:sSubSup"), Open("m:sSubSupPr")>> \o CtrlPr
           \o <<Close("m:sSubSupPr"), Open("m:e")>> \o base
           \o <<Close("m:e"), Open("m:sub")>> \o sub
           \o <<Close("m:sub"), Open("m:sup")>> \o sup
           \o <<Close("m:sup"), Close("m:sSubSup")>>

convertSqrt(node) ==
    LET content == convertChildren(node)
    IN <<Open("m:rad"), Open("m:radPr"), Empty("m:degHide", <<"1">>)>> \o CtrlPr
           \o <<Close("m:radPr"), Empty("m:deg", <<>>), Open("m:e")>> \o content
           \o <<Close("m:e"), Close("m:rad")>>

convertRoot(node) ==
    LET children == getChildElements(node)
        base == ChildOrEmptyRun(children, 1)
        degree == ChildOrEmptyRun(children, 2)
    IN <<Open("m:rad"), Open("m:radPr")>> \o CtrlPr \o <<Close("m:radPr"), Open("m:deg")>>
           \o degree \o <<Close("m:deg"), Open("m:e")>> \o base
           \o <<Close("m:e"), Close("m:rad")>>

convertOver(node) ==
    LET children == getChildElements(node)
        base == ChildOrEmptyRun(children, 1)
        overText == IF Len(children) >= 2 THEN Trim(textContent(children[2])) ELSE <<>>
        accent == \/ node.attrs.accent = <<"t", "r", "u", "e">>
                  \/ (Len(overText) = 1 /\ overText[1] \in KNOWN_ACCENTS)
    IN IF accent
       THEN <<Open("m:acc"), Open("m:accPr"), accentChr(overText)>> \o CtrlPr
                \o <<Close("m:accPr"), Open("m:e")>> \o base
                \o <<Close("m:e"), Close("m:acc")>>
       ELSE LET over == ChildOrEmptyRun(children, 2)
            IN <<Open("m:limUpp"), Open("m:limUppPr")>> \o CtrlPr
                   \o <<Close("m:limUppPr"), Open("m:e")>> \o base
                   \o <<Close("m:e"), Open("m:lim")>> \o over
                   \o <<Close("m:lim"), Close("m:limUpp")>>

convertUnder(node) ==
    LET children == getChildElements(node)
        base == ChildOrEmptyRun(children, 1)
        under == ChildOrEmptyRun(children, 2)
    IN <<Open("m:limLow"), Open("m:limLowPr")>> \o CtrlPr
           \o <<Close("m:limLowPr"), Open("m:e")>> \o base
           \o <<Close("m:e"), Open("m:lim")>> \o under
           \o <<Close("m:lim"), Close("m:limLow")>>

convertUnderOver(node) ==
    LET children == getChildElements(node)
        baseText == IF Len(children) >= 1 THEN Trim(textContent(children[1])) ELSE <<>>
        isNary == Len(baseText) = 1 /\ baseText[1] \in narySymbols
        subOmml == ChildOrEmptyRun(children, 2)
        supOmml == ChildOrEmptyRun(children, 3)
        chr == IF isNary THEN Empty("m:chr", escapeXml(baseText)) ELSE ThrowMark
        inner == <<Open("m:limUpp"), Open("m:limUppPr")>> \o CtrlPr
                     \o <<Close("m:limUppPr"), Open("m:e")>> \o ChildOrEmptyRun(children, 1)
                     \o <<Close("m:e"), Open("m:lim")>> \o supOmml
                     \o <<Close("m:lim"), Close("m:limUpp")>>
    IN IF isNary \/ baseText \in ObjectPrototypeKeys
       THEN <<Open("m:nary"), Open("m:naryPr"), chr,
              Empty("m:limLoc", <<"u", "n", "d", "O", "v", "r">>)>> \o CtrlPr
                \o <<Close("m:naryPr"), Open("m:sub")>> \o subOmml
                \o <<Close("m:sub"), Open("m:sup")>> \o supOmml
                \o <<Close("m:sup"), Open("m:e"), Close("m:e"), Close("m:nary")>>
       ELSE <<Open("m:limLow"), Open("m:limLowPr")>> \o CtrlPr
                \o <<Close("m:limLowPr"), Open("m:e")>> \o inner
                \o <<Close("m:e"), Open("m:lim")>> \o subOmml
                \o <<Close("m:lim"), Close("m:limLow")>>

IsRow(n) == IsElement(n) /\ localName(n) \in {"mtr", "mlabeledtr"}
IsCell(n) == IsElement(n) /\ localName(n) = "mtd"

convertTableRow(node) ==
    LET tds == SelectSeq(node.kids, IsCell)
        cells == Concat([i \in 1..Len(tds) |->
                     <<Open("m:e")>> \o convertChildren(tds[i]) \o <<Close("m:e")>>])
    IN <<Open("m:mr")>> \o cells \o <<Close("m:mr")>>

Digits == <<"0", "1", "2", "3", "4", "5", "6", "7", "8", "9">>
RECURSIVE NumStr(_)
\* A number written into a template string.
NumStr(n) ==
    IF n < 10 THEN <<Digits[n + 1]>> ELSE NumStr(n \div 10) \o <<Digits[(n % 10) + 1]>>

RECURSIVE MaxOf(_)
MaxOf(ns) ==
    IF ns = <<>> THEN 0
    ELSE LET m == MaxOf(Tail(ns)) IN IF Head(ns) > m THEN Head(ns) ELSE m

getMaxCols(tableNode) ==
    LET els == getChildElements(tableNode)
        max == MaxOf([i \in 1..Len(els) |-> Len(SelectSeq(els[i].kids, IsCell))])
    IN IF max = 0 THEN 1 ELSE max

convertTable(node) ==
    LET trs == SelectSeq(node.kids, IsRow)
        rows == [i \in 1..Len(trs) |-> convertTableRow(trs[i])]
    IN <<Open("m:m"), Open("m:mPr"), Open("m:mcs"), Open("m:mc"), Open("m:mcPr"),
         Empty("m:count", NumStr(getMaxCols(node))),
         Empty("m:mcJc", <<"c", "e", "n", "t", "e", "r">>),
         Close("m:mcPr"), Close("m:mc"), Close("m:mcs")>> \o CtrlPr
           \o <<Close("m:mPr")>> \o Concat(rows) \o <<Close("m:m")>>

\* node.getAttribute(name) || dflt
AttrOr(v, dflt) == IF v = Null \/ v = <<>> THEN dflt ELSE v

convertFenced(node) ==
    LET open == AttrOr(node.attrs.open, <<"(">>)
        close == AttrOr(node.attrs.close, <<")">>)
        content == convertChildren(node)
    IN <<Open("m:d"), Open("m:dPr"), Empty("m:begChr", escapeXml(open)),
         Empty("m:endChr", escapeXml(close))>> \o CtrlPr
           \o <<Close("m:dPr"), Open("m:e")>> \o content \o <<Close("m:e"), Close("m:d")>>

convertEnclose(node) ==
    LET content == convertChildren(node)
    IN <<Open("m:borderBox"), Open("m:borderBoxPr")>> \o CtrlPr
           \o <<Close("m:borderBoxPr"), Open("m:e")>> \o content
           \o <<Close("m:e"), Close("m:borderBox")>>

convertMultiscripts(node) == convertChildren(node)

convertNode(node) ==
    IF node.tag = "#text"
    THEN LET text == Trim(node.text) IN IF text = <<>> THEN <<>> ELSE makeRun(text)
    ELSE LET tag == localName(node)
         IN CASE tag \in {"math", "mrow", "semantics", "mstyle", "mpadded", "mphantom"}
                     -> convertChildren(node)
              [] tag \in {"annotation", "annotation-xml"} -> <<>>
              [] tag \in {"mi", "mn", "mo", "ms", "mtext"} -> convertToken(node, tag)
              [] tag = "mfrac" -> convertFraction(node)
              [] tag = "msup" -> convertSuperscript(node)
              [] tag = "msub" -> convertSubscript(node)
              [] tag = "msubsup" -> convertSubSuperscript(node)
              [] tag = "msqrt" -> convertSqrt(node)
              [] tag = "mroot" -> convertRoot(node)
              [] tag = "mover" -> convertOver(node)
              [] tag = "munder" -> convertUnder(node)
              [] tag = "munderover" -> convertUnderOver(node)
              [] tag = "mtable" -> convertTable(node)
              [] tag \in {"mtr", "mlabeledtr"} -> convertTableRow(node)
              [] tag = "mtd" -> convertChildren(node)
              [] tag = "mfenced" -> convertFenced(node)
              [] tag = "menclose" -> convertEnclose(node)
              [] tag = "mspace" -> <<>>
              [] tag = "mmultiscripts" -> convertMultiscripts(node)
              [] OTHER -> convertChildren(node)

\* ------------------------------------- mathml-to-omml.js: latexToOmmlDirect

Letters ==
    {"a", "b", "c", "d", "e", "f", "g", "h", "i", "j", "k", "l", "m", "n", "o", "p", "q",
     "r", "s", "t", "u", "v", "w", "x", "y", "z", "A", "B", "C", "D", "E", "F", "G", "H",
     "I", "J", "K", "L", "M", "N", "O", "P", "Q", "R", "S", "T", "U", "V", "W", "X", "Y",
     "Z"}

\* latex[pos], the cursor pos counted from 0 as in the source.
At(latex, pos) == latex[pos + 1]

RECURSIVE readLetters(_, _, _)
readLetters(latex, pos, cmd) ==
    IF pos < Len(latex) /\ At(latex, pos) \in Letters
    THEN readLetters(latex, pos + 1, cmd \o <<At(latex, pos)>>)
    ELSE [cmd |-> cmd, pos |-> pos]

\* readCommand: skip the backslash, read the letters that follow.
readCommand(latex, pos) == readLetters(latex, pos + 1, <<>>)

\* The commands of handleCommand that stand for one symbol ("" for any other).
SymbolOf(cmd) ==
    CASE cmd = <<"s", "u", "m">> -> "U+2211"
      [] cmd = <<"p", "r", "o", "d">> -> "U+220F"
      [] cmd = <<"i", "n", "t">> -> "U+222B"
      [] cmd = <<"i", "n", "f", "t", "y">> -> "U+221E"
      [] cmd = <<"a", "l", "p", "h", "a">> -> "U+03B1"
      [] cmd = <<"b", "e", "t", "a">> -> "U+03B2"
      [] cmd = <<"g", "a", "m", "m", "a">> -> "U+03B3"
      [] cmd = <<"d", "e", "l", "t", "a">> -> "U+03B4"
      [] cmd = <<"e", "p", "s", "i", "l", "o", "n">> -> "U+03B5"
      [] cmd = <<"z", "e", "t", "a">> -> "U+03B6"
      [] cmd = <<"e", "t", "a">> -> "U+03B7"
      [] cmd = <<"t", "h", "e", "t", "a">> -> "U+03B8"
      [] cmd = <<"i", "o", "t", "a">> -> "U+03B9"
      [] cmd = <<"k", "a", "p", "p", "a">> -> "U+03BA"
      [] cmd = <<"l", "a", "m", "b", "d", "a">> -> "U+03BB"
      [] cmd = <<"m", "u">> -> "U+03BC"
      [] cmd = <<"n", "u">> -> "U+03BD"
      [] cmd = <<"x", "i">> -> "U+03BE"
      [] cmd = <<"p", "i">> -> "U+03C0"
      [] cmd = <<"r", "h", "o">> -> "U+03C1"
      [] cmd = <<"s", "i", "g", "m", "a">> -> "U+03C3"
      [] cmd = <<"t", "a", "u">> -> "U+03C4"
      [] cmd = <<"u", "p", "s", "i", "l", "o", "n">> -> "U+03C5"
      [] cmd = <<"p", "h", "i">> -> "U+03C6"
      [] cmd = <<"c", "h", "i">> -> "U+03C7"
      [] cmd = <<"p", "s", "i">> -> "U+03C8"
      [] cmd = <<"o", "m", "e", "g", "a">> -> "U+03C9"
      [] cmd = <<"G", "a", "m", "m", "a">> -> "U+0393"
      [] cmd = <<"D", "e", "l", "t", "a">> -> "U+0394"
      [] cmd = <<"T", "h", "e", "t", "a">> -> "U+0398"
      [] cmd = <<"L", "a", "m", "b", "d", "a">> -> "U+039B"
      [] cmd = <<"X", "i">> -> "U+039E"
      [] cmd = <<"P", "i">> -> "U+03A0"
      [] cmd = <<"S", "i", "g", "m", "a">> -> "U+03A3"
      [] cmd = <<"P", "h", "i">> -> "U+03A6"
      [] cmd = <<"P", "s", "i">> -> "U+03A8"
      [] cmd = <<"O", "m", "e", "g", "a">> -> "U+03A9"
      [] cmd = <<"c", "d", "o", "t">> -> "U+22C5"
      [] cmd = <<"c", "d", "o", "t", "s">> -> "U+22EF"
      [] cmd = <<"l", "d", "o", "t", "s">> -> "U+2026"
      [] cmd = <<"d", "o", "t", "s">> -> "U+2026"
      [] cmd = <<"t", "i", "m", "e", "s">> -> "U+00D7"
      [] cmd = <<"d", "i", "v">> -> "U+00F7"
      [] cmd = <<"p", "m">> -> "U+00B1"
      [] cmd = <<"m", "p">> -> "U+2213"
      [] cmd = <<"l", "e", "q">> -> "U+2264"
      [] cmd = <<"l", "e">> -> "U+2264"
      [] cmd = <<"g", "e", "q">> -> "U+2265"
      [] cmd = <<"g", "e">> -> "U+2265"
      [] cmd = <<"n", "e", "q">> -> "U+2260"
      [] cmd = <<"n", "e">> -> "U+2260"
      [] cmd = <<"a", "p", "p", "r", "o", "x">> -> "U+2248"
      [] cmd = <<"e", "q", "u", "i", "v">> -> "U+2261"
      [] cmd = <<"s", "i", "m">> -> "U+223C"
      [] cmd = <<"p", "r", "o", "p", "t", "o">> -> "U+221D"
      [] cmd = <<"i", "n">> -> "U+2208"
      [] cmd = <<"n", "o", "t", "i", "n">> -> "U+2209"
      [] cmd = <<"s", "u", "b", "s", "e", "t">> -> "U+2282"
      [] cmd = <<"s", "u", "p", "s", "e", "t">> -> "U+2283"
      [] cmd = <<"s", "u", "b", "s", "e", "t", "e", "q">> -> "U+2286"
      [] cmd = <<"s", "u", "p", "s", "e", "t", "e", "q">> -> "U+2287"
      [] cmd = <<"c", "u", "p">> -> "U+222A"
      [] cmd = <<"c", "a", "p">> -> "U+2229"
      [] cmd = <<"f", "o", "r", "a", "l", "l">> -> "U+2200"
      [] cmd = <<"e", "x", "i", "s", "t", "s">> -> "U+2203"
      [] cmd = <<"n", "a", "b", "l", "a">> -> "U+2207"
      [] cmd = <<"p", "a", "r", "t", "i", "a", "l">> -> "U+2202"
      [] cmd = <<"t", "o">> -> "U+2192"
      [] cmd = <<"r", "i", "g", "h", "t", "a", "r", "r", "o", "w">> -> "U+2192"
      [] cmd = <<"l", "e", "f", "t", "a", "r", "r", "o", "w">> -> "U+2190"
      [] cmd = <<"R", "i", "g", "h", "t", "a", "r", "r", "o", "w">> -> "U+21D2"
      [] cmd = <<"L", "e", "f", "t", "a", "r", "r", "o", "w">> -> "U+21D0"
      [] cmd = <<"l", "e", "f", "t", "r", "i", "g", "h", "t", "a", "r", "r", "o", "w">> -> "U+2194"
      [] cmd = <<"L", "e", "f", "t", "r", "i", "g", "h", "t", "a", "r", "r", "o", "w">> -> "U+21D4"
      [] cmd = <<"l", "a", "n", "g", "l", "e">> -> "U+27E8"
      [] cmd = <<"r", "a", "n", "g", "l", "e">> -> "U+27E9"
      [] cmd = <<"l", "f", "l", "o", "o", "r">> -> "U+230A"
      [] cmd = <<"r", "f", "l", "o", "o", "r">> -> "U+230B"
      [] cmd = <<"l", "c", "e", "i", "l">> -> "U+2308"
      [] cmd = <<"r", "c", "e", "i", "l">> -> "U+2309"
      [] OTHER -> ""

AccentOf(cmd) ==
    CASE cmd \in {<<"b", "a", "r">>, <<"o", "v", "e", "r", "l", "i", "n", "e">>} -> "U+0304"
      [] cmd = <<"h", "a", "t">> -> "U+0302"
      [] cmd = <<"v", "e", "c">> -> "U+20D7"
      [] cmd = <<"d", "o", "t">> -> "U+0307"
      [] cmd = <<"t", "i", "l", "d", "e">> -> "U+0303"
      [] OTHER -> ""

TextCommands ==
    {<<"t", "e", "x", "t">>, <<"m", "a", "t", "h", "r", "m">>, <<"t", "e", "x", "t", "r", "m">>,
     <<"m", "a", "t", "h", "b", "f">>, <<"t", "e", "x", "t", "b", "f">>, <<"b", "f">>}

\* A parse step's result: the OMML it produced and the cursor it leaves.
Parsed(out, pos) == [out |-> out, pos |-> pos]

\* pos++ without the test of the character under the cursor.
SkipCloseUnchecked(latex, pos) == pos + 1

\* if (pos < len && latex[pos] === '}') pos++
SkipClose(latex, pos) ==
    IF pos < Len(latex) /\ At(latex, pos) = "}" THEN pos + 1 ELSE pos

sSupOf(baseOmml, sup) ==
    <<Open("m:sSup"), Open("m:sSupPr")>> \o CtrlPr \o <<Close("m:sSupPr"), Open("m:e")>>
        \o baseOmml \o <<Close("m:e"), Open("m:sup")>> \o sup
        \o <<Close("m:sup"), Close("m:sSup")>>

sSubOf(baseOmml, sub) ==
    <<Open("m:sSub"), Open("m:sSubPr")>> \o CtrlPr \o <<Close("m:sSubPr"), Open("m:e")>>
        \o baseOmml \o <<Close("m:e"), Open("m:sub")>> \o sub
        \o <<Close("m:sub"), Close("m:sSub")>>

sSubSupOf(baseOmml, sub, sup) ==
    <<Open("m:sSubSup"), Open("m:sSubSupPr")>> \o CtrlPr
        \o <<Close("m:sSubSupPr"), Open("m:e")>> \o baseOmml
        \o <<Close("m:e"), Open("m:sub")>> \o sub
        \o <<Close("m:sub"), Open("m:sup")>> \o sup
        \o <<Close("m:sup"), Close("m:sSubSup")>>

accOf(chr, content) ==
    <<Open("m:acc"), Open("m:accPr"), Empty("m:chr", <<chr>>)>> \o CtrlPr
        \o <<Close("m:accPr"), Open("m:e")>> \o content \o <<Close("m:e"), Close("m:acc")>>

\* The base with only the last run of the accumulated result.
scriptBaseLastAtom(result) ==
    IF result = <<>> THEN makeRun(<<>>)
    ELSE SubSeq(result, Len(result) - 7, Len(result))

\* const baseOmml = base || makeRun('')
scriptBase(result) ==
    IF result = <<>> THEN makeRun(<<>>)
    ELSE result

RECURSIVE parseLoop(_, _, _)
RECURSIVE parseGroup(_, _)
RECURSIVE handleCommand(_, _, _)

\* parse(): a fresh result, then the loop.
parse(latex, pos) == parseLoop(latex, pos, <<>>)

\* One iteration of parse's while loop, with the result accumulated so far.
parseLoop(latex, pos, result) ==
    IF ~(pos < Len(latex)) THEN Parsed(result, pos)
    ELSE LET ch == At(latex, pos)
         IN CASE ch = "}" -> Parsed(result, pos)
              [] ch = "{" ->
                   LET r == parse(latex, pos + 1)
                   IN parseLoop(latex, SkipClose(latex, r.pos), result \o r.out)
              [] ch = "^" ->
                   LET sup == parseGroup(latex, pos + 1)
                       baseOmml == scriptBase(result)
                       rest == parse(latex, sup.pos)
                   IN Parsed(sSupOf(baseOmml, sup.out) \o rest.out, rest.pos)
              [] ch = "_" ->
                   LET sub == parseGroup(latex, pos + 1)
                       baseOmml == scriptBase(result)
                   IN IF sub.pos < Len(latex) /\ At(latex, sub.pos) = "^"
                      THEN LET sup == parseGroup(latex, sub.pos + 1)
                               rest == parse(latex, sup.pos)
                           IN Parsed(sSubSupOf(baseOmml, sub.out, sup.out) \o rest.out,
                                     rest.pos)
                      ELSE LET rest == parse(latex, sub.pos)
                           IN Parsed(sSubOf(baseOmml, sub.out) \o rest.out, rest.pos)
              [] ch = "\\" ->
                   LET c == readCommand(latex, pos)
                       r == handleCommand(latex, c.pos, c.cmd)
                   IN parseLoop(latex, r.pos, result \o r.out)
              [] ch = " " -> parseLoop(latex, pos + 1, result)
              [] OTHER -> parseLoop(latex, pos + 1, result \o makeRun(<<ch>>))

parseGroup(latex, pos) ==
    IF pos < Len(latex) /\ At(latex, pos) = "{"
    THEN LET r == parse(latex, pos + 1) IN Parsed(r.out, SkipClose(latex, r.pos))
    ELSE IF pos < Len(latex) /\ At(latex, pos) = "\\"
    THEN LET c == readCommand(latex, pos) IN handleCommand(latex, c.pos, c.cmd)
    ELSE IF pos < Len(latex)
    THEN Parsed(makeRun(<<At(latex, pos)>>), pos + 1)
    ELSE Parsed(<<>>, pos)

\* handleCommand(cmd), entered with the cursor just after the command name.
handleCommand(latex, pos, cmd) ==
    CASE cmd = <<"f", "r", "a", "c">> ->
             LET num == parseGroup(latex, pos)
                 den == parseGroup(latex, num.pos)
             IN Parsed(<<Open("m:f"), Open("m:fPr")>> \o CtrlPr
                           \o <<Close("m:fPr"), Open("m:num")>> \o num.out
                           \o <<Close("m:num"), Open("m:den")>> \o den.out
                           \o <<Close("m:den"), Close("m:f")>>, den.pos)
      [] cmd = <<"s", "q", "r", "t">> ->
             LET content == parseGroup(latex, pos)
             IN Parsed(<<Open("m:rad"), Open("m:radPr"), Empty("m:degHide", <<"1">>)>>
                           \o CtrlPr
                           \o <<Close("m:radPr"), Empty("m:deg", <<>>), Open("m:e")>>
                           \o content.out \o <<Close("m:e"), Close("m:rad")>>, content.pos)
      [] SymbolOf(cmd) # "" -> Parsed(makeRun(<<SymbolOf(cmd)>>), pos)
      [] cmd \in {<<"l", "e", "f", "t">>, <<"r", "i", "g", "h", "t">>} ->
             IF pos < Len(latex)
             THEN LET delim == IF At(latex, pos) = "\\" THEN <<>> ELSE <<At(latex, pos)>>
                  IN Parsed(makeRun(delim), pos + 1)
             ELSE Parsed(<<>>, pos)
      [] cmd \in TextCommands -> parseGroup(latex, pos)
      [] AccentOf(cmd) # "" ->
             LET content == parseGroup(latex, pos)
             IN Parsed(accOf(AccentOf(cmd), content.out), content.pos)
      [] OTHER -> Parsed(makeRun(<<"\\">> \o cmd), pos)

latexToOmmlDirect(latex) == parse(latex, 0).out

latexToOmml(latex, display) ==
    LET ommlContent == latexToOmmlDirect(latex)
    IN IF display
       THEN <<Open("m:oMathPara"), Open("m:oMath")>> \o ommlContent
                \o <<Close("m:oMath"), Close("m:oMathPara")>>
       ELSE <<Open("m:oMath")>> \o ommlContent \o <<Close("m:oMath")>>

\* ---------------------------------------- mathml-to-omml.js: mathmlToOmml

\* No node: what querySelector returns when nothing matches.
NullNode == [tag |-> "#null", attrs |-> NoAttrs, cls |-> {}, text |-> <<>>, kids |-> <<>>]

RECURSIVE Preorder(_)
\* The node and its descendants in document order.
Preorder(node) ==
    <<node>> \o Concat([i \in 1..Len(node.kids) |-> Preorder(node.kids[i])])

\* The first element among nodes with one of the tags, or no node.
FirstTagged(nodes, tags) ==
    LET hits == SelectSeq(nodes, LAMBDA n : n.tag \in tags)
    IN IF hits = <<>> THEN NullNode ELSE hits[1]

\* A MathML source string, as far as the DOMParser tells strings apart: a
\* well-formed document (known by its root element) or a string that is not
\* well-formed XML (known by its characters).
WellFormed(root) == [wellFormed |-> TRUE, text |-> <<>>, root |-> root]
Malformed(text) == [wellFormed |-> FALSE, text |-> text, root |-> NullNode]

\* The document element parseFromString(..., 'application/xml') returns: the
\* document's root, or a parsererror element when the string is not well-formed.
\* The xmlns attribute that the source adds to the first '<math' changes the
\* namespace of the elements only, which no later step reads.
parseFromString(src) ==
    IF src.wellFormed THEN src.root
    ELSE El("parsererror", NoAttrs, <<Txt(<<"e", "r", "r", "o", "r">>)>>)

\* doc.querySelector('math') || doc.documentElement
locateMath(documentElement) ==
    LET found == FirstTagged(Preorder(documentElement), {"math"})
    IN IF found # NullNode THEN found ELSE documentElement

\* mathmlToOmml that wraps whatever the display attribute says.
mathmlToOmmlAlwaysPara(src) ==
    LET mathEl == locateMath(parseFromString(src))
    IN IF mathEl = NullNode \/ mathEl.tag = "parsererror"
       THEN <<Open("m:oMath"), Open("m:r"), Open("m:t"), Text(escapeXml(src.text)),
              Close("m:t"), Close("m:r"), Close("m:oMath")>>
       ELSE <<Open("m:oMathPara"), Open("m:oMath")>> \o convertNode(mathEl)
                \o <<Close("m:oMath"), Close("m:oMathPara")>>

mathmlToOmml(src) ==
    LET mathEl == locateMath(parseFromString(src))
    IN IF mathEl = NullNode \/ mathEl.tag = "parsererror"
       THEN <<Open("m:oMath"), Open("m:r"), Open("m:t"), Text(escapeXml(src.text)),
              Close("m:t"), Close("m:r"), Close("m:oMath")>>
       ELSE LET isDisplay == mathEl.attrs.display = <<"b", "l", "o", "c", "k">>
                innerOmml == convertNode(mathEl)
            IN IF isDisplay
               THEN <<Open("m:oMathPara"), Open("m:oMath")>> \o innerOmml
                        \o <<Close("m:oMath"), Close("m:oMathPara")>>
               ELSE <<Open("m:oMath")>> \o innerOmml \o <<Close("m:oMath")>>

\* A call of a converter: the fragment it returns, unless a TypeError ended it.
Outcome(omml) ==
    IF \E i \in 1..Len(omml) : omml[i] = ThrowMark THEN Threw ELSE Returned(omml)

\* ------------------------------------------------- converter call arguments

Mi(s) == El("mi", NoAttrs, <<Txt(s)>>)
Mo(s) == El("mo", NoAttrs, <<Txt(s)>>)

\* Child nodes the element under conversion is given: an identifier that needs
\* escaping, operators that are an accent or an n-ary sign, white space, a table
\* row, and an identifier spelled like a property of Object.prototype.
Atoms ==
    {Mi(<<"<">>), Mo(<<"^">>), Mo(<<"U+2211">>), Txt(<<" ">>),
     El("mtr", NoAttrs, <<El("mtd", NoAttrs, <<Mi(<<"x">>)>>)>>),
     Mi(<<"c", "o", "n", "s", "t", "r", "u", "c", "t", "o", "r">>)}

Block == <<"b", "l", "o", "c", "k">>
WithAttr(name, v) == [NoAttrs EXCEPT ![name] = v]

\* Tag and attributes of the element under conversion: every case of
\* convertNode's switch, with the attributes its converters read.
Heads ==
    {[tag |-> t, attrs |-> NoAttrs] :
        t \in {"math", "mrow", "annotation", "mi", "mfrac", "msup", "msub", "msubsup",
               "msqrt", "mroot", "mover", "munder", "munderover", "mtable", "mtr", "mtd",
               "mfenced", "menclose", "mspace", "mmultiscripts", "mglyph"}}
    \cup {[tag |-> "math", attrs |-> WithAttr("display", Block)],
          [tag |-> "mfrac", attrs |-> WithAttr("linethickness", <<"0">>)],
          [tag |-> "mover", attrs |-> WithAttr("accent", <<"t", "r", "u", "e">>)],
          [tag |-> "mfenced", attrs |-> [NoAttrs EXCEPT !.open = <<"[">>, !.close = <<"<">>]]}

\* The document: a math root, with and without display="block", or a root that
\* is no math element.
Roots(c) ==
    {El("math", NoAttrs, <<c>>), El("math", WithAttr("display", Block), <<c>>),
     El("mrow", NoAttrs, <<c>>)}

\* Characters of strings that are not well-formed XML, whatever their order.
BadChars == {"<", "&", "x", "U+0000"}

\* arg is a MathML source string: a document whose root holds one element
\* with up to MaxKids child nodes, or a string that is not well-formed.
IsMathmlInput(a) ==
    \/ \E h \in Heads : \E k \in 0..MaxKids : \E kids \in [1..k -> Atoms] :
           \E r \in Roots(El(h.tag, h.attrs, kids)) : a = WellFormed(r)
    \/ \E k \in 0..MaxLen : \E t \in [1..k -> BadChars] : a = Malformed(t)

\* Lexical pieces of the LaTeX strings: two-argument, radical, accent, delimiter, symbol
\* and unknown commands, braces, script signs, a literal that needs escaping
\* and a space.
Pieces ==
    {<<"\\", "f", "r", "a", "c">>, <<"\\", "s", "q", "r", "t">>, <<"\\", "h", "a", "t">>,
     <<"\\", "l", "e", "f", "t">>, <<"\\", "p", "i">>, <<"\\", "z">>,
     <<"{">>, <<"}">>, <<"^">>, <<"_">>, <<"<">>, <<" ">>}

\* a is a LaTeX string of up to MaxParts pieces and a display flag.
IsLatexInput(a) ==
    \E k \in 0..MaxParts : \E ps \in [1..k -> Pieces] : \E display \in BOOLEAN :
        a = [latex |-> Concat(ps), display |-> display]

InitMath ==
    /\ pc = "call"
    /\ ret = NoRet
    /\ dom = NoDom
    /\ env = NoEnv
    /\ \/ fn = "mathmlToOmml" /\ IsMathmlInput(arg)
       \/ fn = "latexToOmml" /\ IsLatexInput(arg)

CallMathmlToOmml ==
    /\ pc = "call"
    /\ fn = "mathmlToOmml"
    /\ ret' = Outcome(mathmlToOmml(arg))
    /\ pc' = "done"
    /\ UNCHANGED <<fn, arg, dom, env>>

CallLatexToOmml ==
    /\ pc = "call"
    /\ fn = "latexToOmml"
    /\ ret' = Outcome(latexToOmml(arg.latex, arg.display))
    /\ pc' = "done"
    /\ UNCHANGED <<fn, arg, dom, env>>

NextMath == CallMathmlToOmml \/ CallLatexToOmml

SpecMath == InitMath /\ [][NextMath]_vars

\* ------------------------------------------------ dom-extractor.js: DOM access

\* An HTML element with its class list and child nodes.
H(tag, cls, kids) ==
    [tag |-> tag, attrs |-> NoAttrs, cls |-> cls, text |-> <<>>, kids |-> kids]

\* element.children
children(el) == SelectSeq(el.kids, IsElement)

\* The element's descendants in document order: the nodes querySelector and
\* querySelectorAll look through.
Descendants(el) == Tail(Preorder(el))

RECURSIVE PathsIn(_, _)
\* The descendants of node in document order, each as the path of child
\* positions that leads to it from node.
PathsIn(node, at) ==
    Concat([i \in 1..Len(node.kids) |->
                <<at \o <<i>>>> \o PathsIn(node.kids[i], at \o <<i>>)])

RECURSIVE NodeAt(_, _)
NodeAt(node, path) ==
    IF path = <<>> THEN node ELSE NodeAt(node.kids[Head(path)], Tail(path))

\* path leads to a proper descendant of the node at anc.
Below(anc, path) == Len(anc) < Len(path) /\ SubSeq(path, 1, Len(anc)) = anc

\* The first element among nodes that carries every class of classes, or no node.
FirstClassed(nodes, classes) ==
    LET hits == SelectSeq(nodes, LAMBDA n : classes \subseteq n.cls)
    IN IF hits = <<>> THEN NullNode ELSE hits[1]

\* The class names of the model that contain "markdown": [class*="markdown"].
MarkdownClassNames == {"markdown", "markdown-body"}

\* className.match(/language-(\w+)/)?.[1] || '' for the class names of the model.
languageOf(codeEl) ==
    IF codeEl # NullNode /\ "language-js" \in codeEl.cls THEN <<"j", "s">> ELSE <<>>

\* XMLSerializer.serializeToString: the start tag with its attributes, the
\* serialized child nodes and the end tag; character data with & < > escaped.
OpenTag(node) == [k |-> "open", n |-> node.tag, attrs |-> node.attrs, cls |-> node.cls]
RECURSIVE serializeToString(_)
serializeToString(node) ==
    IF node.tag = "#gone" THEN <<>>
    ELSE IF node.tag = "#text"
    THEN <<Text(ReplaceAll(ReplaceAll(ReplaceAll(node.text, "&", AMP), "<", LT), ">", GT))>>
    ELSE <<OpenTag(node)>>
             \o Concat([i \in 1..Len(node.kids) |-> serializeToString(node.kids[i])])
             \o <<Close(node.tag)>>

\* ------------------------------------------- dom-extractor.js: extraction

getMarkdownContent(messageEl) ==
    LET inside == Descendants(messageEl)
        prose == FirstClassed(inside, {"markdown", "prose"})
        markdown == FirstClassed(inside, {"markdown"})
        like == SelectSeq(inside, LAMBDA n : n.cls \cap MarkdownClassNames # {})
    IN IF prose # NullNode THEN prose
       ELSE IF markdown # NullNode THEN markdown
       ELSE IF like # <<>> THEN like[1]
       ELSE messageEl

TeX == <<"a", "p", "p", "l", "i", "c", "a", "t", "i", "o", "n", "/", "x", "-", "t", "e", "x">>

extractMathBlock(katexEl, display) ==
    LET mathmlContainer == FirstClassed(Descendants(katexEl), {"katex-mathml"})
        mathEl == IF mathmlContainer = NullNode THEN NullNode
                  ELSE FirstTagged(Descendants(mathmlContainer), {"math"})
        annos == IF mathEl = NullNode THEN <<>>
                 ELSE SelectSeq(Descendants(mathEl),
                                LAMBDA n : n.tag = "annotation" /\ n.attrs.encoding = TeX)
        latex == IF annos = <<>> THEN <<>> ELSE textContent(annos[1])
        mathml == IF mathEl = NullNode THEN <<>> ELSE serializeToString(mathEl)
    IN [type |-> "math", display |-> display, latex |-> latex, mathml |-> mathml]

\* A rendered formula that gives its math item and its text as well.
katexItemsAndText(node) ==
    <<extractMathBlock(node, FALSE), [type |-> "text", text |-> textContent(node)]>>

\* The items walk pushes for a rendered formula: its math item, and the
\* formula is not walked into.
katexItems(node) == <<extractMathBlock(node, FALSE)>>

RECURSIVE walk(_)
extractInlineContent(el) == Concat([i \in 1..Len(el.kids) |-> walk(el.kids[i])])

\* The items walk(node) pushes.
walk(node) ==
    IF node.tag = "#text"
    THEN IF node.text # <<>> THEN <<[type |-> "text", text |-> node.text]>> ELSE <<>>
    ELSE IF "katex" \in node.cls THEN katexItems(node)
    ELSE IF "katex-mathml" \in node.cls THEN <<>>
    ELSE IF node.tag \in {"strong", "b"}
    THEN <<[type |-> "bold", content |-> extractInlineContent(node)]>>
    ELSE IF node.tag \in {"em", "i"}
    THEN <<[type |-> "italic", content |-> extractInlineContent(node)]>>
    ELSE IF node.tag = "code" THEN <<[type |-> "code", text |-> textContent(node)]>>
    ELSE IF node.tag = "a"
    THEN <<[type |-> "link", text |-> textContent(node),
            href |-> IF node.attrs.href \in {Null, <<>>} THEN <<>> ELSE node.attrs.href]>>
    ELSE IF node.tag = "sup" THEN <<[type |-> "superscript", text |-> textContent(node)]>>
    ELSE IF node.tag = "sub" THEN <<[type |-> "subscript", text |-> textContent(node)]>>
    ELSE Concat([i \in 1..Len(node.kids) |-> walk(node.kids[i])])

Lists == {"ul", "ol"}

RECURSIVE removeFirstList(_)
\* clone.querySelector('ul, ol') removed from the clone of node: the first list
\* in document order goes, with all it holds.
removeFirstList(node) ==
    LET hasList(n) == FirstTagged(Preorder(n), Lists) # NullNode
        firstAt == CHOOSE i \in 1..Len(node.kids) :
                       /\ hasList(node.kids[i])
                       /\ \A j \in 1..(i - 1) : ~hasList(node.kids[j])
    IN IF FirstTagged(Descendants(node), Lists) = NullNode THEN node
       ELSE [node EXCEPT !.kids =
                IF node.kids[firstAt].tag \in Lists
                THEN SubSeq(node.kids, 1, firstAt - 1)
                         \o SubSeq(node.kids, firstAt + 1, Len(node.kids))
                ELSE [node.kids EXCEPT ![firstAt] = removeFirstList(node.kids[firstAt])]]

RECURSIVE extractListItems(_)
extractListItems(listEl) ==
    LET item(li) ==
            LET nestedList == FirstTagged(Descendants(li), Lists)
                text == Trim(textContent(removeFirstList(li)))
            IN IF nestedList = NullNode
               THEN [content |-> extractInlineContent(li), text |-> text]
               ELSE [content |-> extractInlineContent(li), text |-> text,
                     nestedList |-> [ordered |-> nestedList.tag = "ol",
                                     items |-> extractListItems(nestedList)]]
        lis == SelectSeq(children(listEl), LAMBDA c : c.tag = "li")
    IN [i \in 1..Len(lis) |-> item(lis[i])]

\* Array.from(tr.querySelectorAll('th, td')).map(...)
cellsOf(tr) ==
    LET cells == SelectSeq(Descendants(tr), LAMBDA n : n.tag \in {"th", "td"})
    IN [i \in 1..Len(cells) |->
            [content |-> extractInlineContent(cells[i]),
             text |-> Trim(textContent(cells[i]))]]

\* extractTableRows that does not skip the rows of thead among the body rows.
extractTableRowsNoSkip(tableEl) ==
    LET all == PathsIn(tableEl, <<>>)
        tagAt(p) == NodeAt(tableEl, p).tag
        theads == SelectSeq(all, LAMBDA p : tagAt(p) = "thead")
        tbodies == SelectSeq(all, LAMBDA p : tagAt(p) = "tbody")
        headTrs == IF theads = <<>> THEN <<>>
                   ELSE SelectSeq(all, LAMBDA p : Below(theads[1], p) /\ tagAt(p) = "tr")
        tbody == IF tbodies = <<>> THEN <<>> ELSE tbodies[1]
        closestThead(p) == \E k \in 1..Len(p) : tagAt(SubSeq(p, 1, k)) = "thead"
        bodyTrs == SelectSeq(all, LAMBDA p :
                       /\ Below(tbody, p)
                       /\ tagAt(p) = "tr"
                       /\ (closestThead(p) \/ TRUE))
    IN [i \in 1..Len(headTrs) |->
            [isHeader |-> TRUE, cells |-> cellsOf(NodeAt(tableEl, headTrs[i]))]]
       \o [i \in 1..Len(bodyTrs) |->
            [isHeader |-> FALSE, cells |-> cellsOf(NodeAt(tableEl, bodyTrs[i]))]]

\* extractTableRows. The nodes are known by their paths from tableEl, so that
\* tr.closest('thead') can look at the ancestors of tr; tableEl itself is taken
\* not to stand inside a thead.
extractTableRows(tableEl) ==
    LET all == PathsIn(tableEl, <<>>)
        tagAt(p) == NodeAt(tableEl, p).tag
        theads == SelectSeq(all, LAMBDA p : tagAt(p) = "thead")
        tbodies == SelectSeq(all, LAMBDA p : tagAt(p) = "tbody")
        headTrs == IF theads = <<>> THEN <<>>
                   ELSE SelectSeq(all, LAMBDA p : Below(theads[1], p) /\ tagAt(p) = "tr")
        tbody == IF tbodies = <<>> THEN <<>> ELSE tbodies[1]
        closestThead(p) == \E k \in 1..Len(p) : tagAt(SubSeq(p, 1, k)) = "thead"
        bodyTrs == SelectSeq(all, LAMBDA p :
                       /\ Below(tbody, p)
                       /\ tagAt(p) = "tr"
                       /\ ~(theads # <<>> /\ closestThead(p)))
    IN [i \in 1..Len(headTrs) |->
            [isHeader |-> TRUE, cells |-> cellsOf(NodeAt(tableEl, headTrs[i]))]]
       \o [i \in 1..Len(bodyTrs) |->
            [isHeader |-> FALSE, cells |-> cellsOf(NodeAt(tableEl, bodyTrs[i]))]]

\* parseElement returning null.
NullBlock == [type |-> "#null"]

\* /^h[1-6]$/ and parseInt(tag[1])
HeadingLevel(tag) ==
    CASE tag = "h1" -> 1 [] tag = "h2" -> 2 [] tag = "h3" -> 3
      [] tag = "h4" -> 4 [] tag = "h5" -> 5 [] tag = "h6" -> 6 [] OTHER -> 0

\* parseElement. The math check inside the div branch (lines 156-160) is never
\* reached: the display-math branch before it has returned for every element
\* that holds a .katex-display.
parseElement(el) ==
    LET tag == el.tag
        inside == Descendants(el)
        codeEl == FirstTagged(inside, {"code"})
        katexDisplay == FirstClassed(inside, {"katex-display"})
        katex == FirstClassed(inside, {"katex"})
        summary == FirstTagged(inside, {"summary"})
        inline == extractInlineContent(el)
    IN IF HeadingLevel(tag) # 0
       THEN [type |-> "heading", level |-> HeadingLevel(tag),
             content |-> inline, text |-> textContent(el)]
       ELSE IF tag = "p"
       THEN [type |-> "paragraph", content |-> inline, text |-> textContent(el)]
       ELSE IF tag \in Lists
       THEN [type |-> "list", ordered |-> tag = "ol", items |-> extractListItems(el)]
       ELSE IF tag = "table"
       THEN [type |-> "table", rows |-> extractTableRows(el)]
       ELSE IF tag = "pre"
       THEN [type |-> "codeBlock", language |-> languageOf(codeEl),
             code |-> IF codeEl # NullNode /\ textContent(codeEl) # <<>>
                      THEN textContent(codeEl) ELSE textContent(el)]
       ELSE IF "katex-display" \in el.cls \/ katexDisplay # NullNode
       THEN extractMathBlock(IF katex # NullNode THEN katex ELSE el, TRUE)
       ELSE IF tag = "blockquote"
       THEN [type |-> "blockquote", content |-> inline, text |-> textContent(el)]
       ELSE IF tag = "hr"
       THEN [type |-> "hr"]
       ELSE IF tag = "details"
       THEN [type |-> "details",
             summary |-> IF summary = NullNode THEN <<>> ELSE textContent(summary),
             content |-> inline]
       ELSE IF tag = "div" /\ inline # <<>>
       THEN [type |-> "paragraph", content |-> inline, text |-> textContent(el)]
       ELSE NullBlock

\* extractContent that looks at every element below the content root.
extractContentDeep(messageEl) ==
    LET container == getMarkdownContent(messageEl)
        all == SelectSeq(Descendants(container), IsElement)
        blocks == [i \in 1..Len(all) |-> parseElement(all[i])]
    IN SelectSeq(blocks, LAMBDA b : b # NullBlock)

extractContent(messageEl) ==
    LET container == getMarkdownContent(messageEl)
        blocks == [i \in 1..Len(children(container)) |-> parseElement(children(container)[i])]
    IN SelectSeq(blocks, LAMBDA b : b # NullBlock)

\* ------------------------------------- dom-extractor.js: the trees a call writes

\* What remove() leaves where a node was; the serializer and the selectors pass
\* over it. Keeping the place keeps the paths of the other nodes.
Gone == [tag |-> "#gone", attrs |-> NoAttrs, cls |-> {}, text |-> <<>>, kids |-> <<>>]

\* The trees a call can reach: the caller's live tree and the clone the call
\* made last. stale holds the nodes of the node list in use that a write has
\* cut off their tree.
Heap(live) == [live |-> live, clone |-> NullNode, stale |-> {}]

\* A reference to a node: the tree it belongs to and its path from the root.
Handle(tree, path) == [tree |-> tree, path |-> path]
NullHandle == [tree |-> "#null", path |-> <<>>]
Deref(heap, h) == NodeAt(heap[h.tree], h.path)

\* h is cut off its tree, or lies inside a subtree that is.
Detached(heap, h) ==
    \E s \in heap.stale :
        /\ s.tree = h.tree
        /\ Len(s.path) <= Len(h.path)
        /\ SubSeq(h.path, 1, Len(s.path)) = s.path

\* A node list is taken anew: none of its nodes is cut off yet.
Fresh(heap) == [heap EXCEPT !.stale = {}]

\* cloneNode that hands back the node itself.
cloneNodeAliased(heap, h) == [heap |-> heap, node |-> h]

\* node.cloneNode(true): a copy, the root of a tree of its own.
cloneNode(heap, h) ==
    [heap |-> [heap EXCEPT !.clone = Deref(heap, h),
                           !.stale = {s \in @ : s.tree # "clone"}],
     node |-> Handle("clone", <<>>)]

\* The descendants of h in document order.
HandlesIn(heap, h) ==
    LET ps == PathsIn(Deref(heap, h), <<>>)
    IN [i \in 1..Len(ps) |-> Handle(h.tree, h.path \o ps[i])]

\* h.querySelectorAll('.a.b')
querySelectorAll(heap, h, classes) ==
    SelectSeq(HandlesIn(heap, h), LAMBDA d : classes \subseteq Deref(heap, d).cls)

\* h.closest('.class'): the nearest of h and its ancestors with the class.
closest(heap, h, class) ==
    LET ks == {k \in 0..Len(h.path) :
                   class \in NodeAt(heap[h.tree], SubSeq(h.path, 1, k)).cls}
    IN IF ks = {} THEN NullHandle
       ELSE Handle(h.tree, SubSeq(h.path, 1, CHOOSE k \in ks : \A j \in ks : j <= k))

RECURSIVE PutAt(_, _, _)
\* tree with node in the place of the node at path.
PutAt(tree, path, node) ==
    IF path = <<>> THEN node
    ELSE [tree EXCEPT !.kids[Head(path)] = PutAt(@, Tail(path), node)]

\* h.replaceWith(node). A node without parent (the root of a clone) stays; a
\* write inside a subtree that is cut off does not show in the tree.
replaceWith(heap, h, node) ==
    IF h.path = <<>> \/ Detached(heap, h) THEN heap
    ELSE [heap EXCEPT ![h.tree] = PutAt(@, h.path, node), !.stale = @ \cup {h}]

\* h.remove()
remove(heap, h) == replaceWith(heap, h, Gone)

\* h.textContent = text
setTextContent(heap, h, text) ==
    IF Detached(heap, h) THEN heap
    ELSE [heap EXCEPT
            ![h.tree] = PutAt(@, h.path,
                              [Deref(heap, h) EXCEPT
                                 !.kids = IF text = <<>> THEN <<>> ELSE <<Txt(text)>>]),
            !.stale = @ \cup {Handle(h.tree, h.path \o <<i>>) :
                                  i \in 1..Len(Deref(heap, h).kids)}]

\* setAttribute that writes nothing.
setAttributeDropped(node, name, value) == node

\* node.setAttribute(name, value) on a node no tree holds yet.
setAttribute(node, name, value) == [node EXCEPT !.attrs[name] = value]

\* element.innerHTML
innerHTML(node) == Concat([i \in 1..Len(node.kids) |-> serializeToString(node.kids[i])])

\* getMarkdownContent, as a reference into the tree of messageEl.
markdownHandle(heap, messageEl) ==
    LET prose == querySelectorAll(heap, messageEl, {"markdown", "prose"})
        markdown == querySelectorAll(heap, messageEl, {"markdown"})
        like == SelectSeq(HandlesIn(heap, messageEl),
                          LAMBDA d : Deref(heap, d).cls \cap MarkdownClassNames # {})
    IN IF prose # <<>> THEN prose[1]
       ELSE IF markdown # <<>> THEN markdown[1]
       ELSE IF like # <<>> THEN like[1]
       ELSE messageEl

\* Longest text a code-block header is collapsed to, plus one.
LangLimit == 30

RECURSIVE replaceKatex(_, _, _)
\* getCleanHtmlWithMathML, lines 374-389: the loop over the .katex elements,
\* from the i-th on.
replaceKatex(heap, katexElements, i) ==
    IF i > Len(katexElements) THEN heap
    ELSE IF Detached(heap, katexElements[i]) THEN replaceKatex(heap, katexElements, i + 1)
    ELSE LET katex == katexElements[i]
             \* katex.querySelector('.katex-mathml math')
             maths == SelectSeq(HandlesIn(heap, katex), LAMBDA d :
                          /\ Deref(heap, d).tag = "math"
                          /\ \E k \in 0..(Len(d.path) - 1) :
                                 "katex-mathml"
                                     \in NodeAt(heap[d.tree], SubSeq(d.path, 1, k)).cls)
             display == closest(heap, katex, "katex-display")
             isDisplay == display # NullHandle
             mathClone == IF isDisplay
                          THEN setAttribute(Deref(heap, maths[1]), "display", Block)
                          ELSE Deref(heap, maths[1])
             wrapper == IF isDisplay THEN display ELSE katex
         IN IF maths = <<>> THEN replaceKatex(heap, katexElements, i + 1)
            ELSE replaceKatex(replaceWith(heap, wrapper, mathClone), katexElements, i + 1)

RECURSIVE removeEach(_, _, _)
\* lines 393-395: el.remove() for the elements from the i-th on.
removeEach(heap, els, i) ==
    IF i > Len(els) THEN heap ELSE removeEach(remove(heap, els[i]), els, i + 1)

RECURSIVE collapseHeaders(_, _, _)
\* lines 399-405: the loop over the code-block headers, from the i-th on.
collapseHeaders(heap, codeHeaders, i) ==
    IF i > Len(codeHeaders) THEN heap
    ELSE IF Detached(heap, codeHeaders[i]) THEN collapseHeaders(heap, codeHeaders, i + 1)
    ELSE LET lang == Trim(textContent(Deref(heap, codeHeaders[i])))
         IN collapseHeaders(IF lang # <<>> /\ Len(lang) < LangLimit
                            THEN setTextContent(heap, codeHeaders[i], lang)
                            ELSE heap,
                            codeHeaders, i + 1)

\* lines 374-389: every .katex element of the clone gives way to its MathML.
withMathML(heap, clone) ==
    replaceKatex(Fresh(heap), querySelectorAll(heap, clone, {"katex"}), 1)

\* lines 392-395: the .katex-html elements that remain are removed.
withoutKatexHtml(heap, clone) ==
    removeEach(Fresh(heap), querySelectorAll(heap, clone, {"katex-html"}), 1)

\* lines 398-405: the code-block headers are collapsed to their text.
withPlainHeaders(heap, clone) ==
    collapseHeaders(Fresh(heap),
                    SelectSeq(HandlesIn(heap, clone), LAMBDA d :
                        \/ "code-block-header" \in Deref(heap, d).cls
                        \/ {"flex", "items-center"} \subseteq Deref(heap, d).cls),
                    1)

\* The child nodes of h.
KidsOf(heap, h) ==
    [i \in 1..Len(Deref(heap, h).kids) |-> Handle(h.tree, h.path \o <<i>>)]

\* h.querySelector('ul, ol'), as a list of at most one node.
firstList(heap, h) ==
    LET hits == SelectSeq(HandlesIn(heap, h), LAMBDA d : Deref(heap, d).tag \in Lists)
    IN IF hits = <<>> THEN <<>> ELSE <<hits[1]>>

RECURSIVE listWrites(_, _, _)
\* extractListItems: the trees as the loop leaves them, from the i-th child of
\* the list on. For an li the nested list is extracted first; then the li is
\* cloned and the first list inside the clone is removed (lines 315-317).
listWrites(heap, lis, i) ==
    IF i > Len(lis) THEN heap
    ELSE IF Deref(heap, lis[i]).tag # "li" THEN listWrites(heap, lis, i + 1)
    ELSE LET nestedList == firstList(heap, lis[i])
             inner == IF nestedList = <<>> THEN heap
                      ELSE listWrites(heap, KidsOf(heap, nestedList[1]), 1)
             made == cloneNode(inner, lis[i])
             nested == firstList(made.heap, made.node)
         IN listWrites(IF nested = <<>> THEN made.heap
                       ELSE remove(Fresh(made.heap), nested[1]),
                       lis, i + 1)

RECURSIVE childWrites(_, _, _)
\* extractContent: the trees as the loop over the children of the content root
\* leaves them, from the i-th child on. Only a list leads to a write.
childWrites(heap, els, i) ==
    IF i > Len(els) THEN heap
    ELSE childWrites(IF Deref(heap, els[i]).tag \in Lists
                     THEN listWrites(heap, KidsOf(heap, els[i]), 1)
                     ELSE heap,
                     els, i + 1)

extractContentWrites(heap, messageEl) ==
    childWrites(heap, KidsOf(heap, markdownHandle(heap, messageEl)), 1)

\* ------------------------------------------------- extractor call arguments

FormulaText == <<"y">>
CopyText == <<"C", "o", "p", "y">>

Word == Txt(<<"T">>)
Space == Txt(<<" ">>)

\* A formula as KaTeX renders it: the hidden MathML with the TeX annotation,
\* then the visual rendering.
KatexMath ==
    El("math", NoAttrs,
       <<El("semantics", NoAttrs,
            <<El("mrow", NoAttrs, <<Mi(FormulaText)>>),
              El("annotation", WithAttr("encoding", TeX), <<Txt(FormulaText)>>)>>)>>)
Katex ==
    H("span", {"katex"},
      <<H("span", {"katex-mathml"}, <<KatexMath>>),
        H("span", {"katex-html"}, <<H("span", {"mord"}, <<Txt(FormulaText)>>)>>)>>)
\* A rendered formula without the hidden MathML.
KatexBare == H("span", {"katex"}, <<H("span", {"katex-html"}, <<Txt(FormulaText)>>)>>)

Button == H("button", {}, <<Txt(CopyText)>>)
LabelText == <<"L", "a", "b", "e", "l">>
LabelledButton == [Button EXCEPT !.attrs = WithAttr("arialabel", LabelText)]
IconButton == H("button", {}, <<H("svg", {}, <<>>)>>)

\* Inline elements around a word or a formula: every tag walk tells apart, a
\* tag it does not know, the two KaTeX classes and the display wrapper.
InlineWrappers ==
    {[tag |-> t, cls |-> {}] : t \in {"strong", "em", "code", "a", "sup", "sub", "span"}}
    \cup {[tag |-> "span", cls |-> {"katex-mathml"}], [tag |-> "span", cls |-> {"katex"}],
          [tag |-> "span", cls |-> {"katex-display"}]}
InlineLeaves == {Word, Katex, KatexBare}
InlineSamples ==
    InlineLeaves
    \cup {H(w.tag, w.cls, <<x>>) : w \in InlineWrappers, x \in InlineLeaves}
    \cup {[H("a", {}, <<Word>>) EXCEPT !.attrs = WithAttr("href", <<"#">>)]}

\* Direct children of the content root.
Para == H("p", {}, <<Word>>)
Table ==
    H("table", {},
      <<H("thead", {}, <<H("tr", {}, <<H("th", {}, <<Word>>)>>)>>),
        H("tbody", {}, <<H("tr", {}, <<H("td", {}, <<Space, Word>>)>>)>>)>>)
TableBare == H("table", {}, <<H("tr", {}, <<H("td", {}, <<Word>>)>>)>>)
Sticky == H("div", {"sticky"}, <<Button>>)
TableWrapper == H("div", {"tableWrapper"}, <<Table, Sticky>>)
BlockSamples ==
    {H("hr", {}, <<>>),
     H("pre", {}, <<H("code", {"language-js"}, <<Word>>)>>),
     H("pre", {}, <<Word>>),
     H("ul", {}, <<H("li", {}, <<Word>>),
                   H("li", {}, <<Word, H("ol", {}, <<H("li", {}, <<Word>>)>>)>>)>>),
     Table, TableBare,
     H("span", {"katex-display"}, <<Katex>>),
     H("div", {}, <<H("span", {"katex-display"}, <<Katex>>)>>),
     H("details", {}, <<H("summary", {}, <<Word>>), Word>>),
     H("section", {}, <<Word>>),
     TableWrapper,
     H("div", {"tableContainer"}, <<TableWrapper>>),
     H("div", {"tableContainer"}, <<Space, H("div", {}, <<Space, TableBare, Space, Sticky>>)>>),
     Sticky,
     H("div", {"sticky"}, <<Space, Button, Space>>),
     H("div", {"cgpt-word-copier-buttons"}, <<Button, Button>>),
     H("div", {}, <<IconButton>>),
     H("div", {}, <<Para, LabelledButton>>),
     H("p", {}, <<KatexBare>>),
     H("pre", {}, <<H("div", {"code-block-header"}, <<Space, Txt(<<"j", "s">>), Space>>),
                    H("code", {"language-js"}, <<Word>>)>>)}

\* A table row of two cells; the cells of different rows differ in their text.
Tr(cell, t) ==
    H("tr", {}, <<H(cell, {}, <<Txt(<<t>>)>>), H("td", {}, <<Txt(<<t, t>>)>>)>>)

\* What a table is made of: a head of one or two rows, a body of one or two
\* rows, a row that stands in the table itself, a foot.
TableSections ==
    {H("thead", {}, <<Tr("th", "h")>>),
     H("thead", {}, <<Tr("th", "h"), Tr("th", "i")>>),
     H("tbody", {}, <<Tr("td", "a")>>),
     H("tbody", {}, <<Tr("td", "b"), Tr("td", "c")>>),
     Tr("td", "d"),
     H("tfoot", {}, <<Tr("td", "f")>>)}
InlineBlockTags == {"p", "h2", "blockquote", "div", "details"}
BlockKids == {Word, Space, Katex, Button}
Context == {<<>>, <<Para>>}

\* The element handed to extractContent: the content root with its children,
\* or a message element that holds the content root.
MessageOf(a) ==
    LET container == H("div", {"markdown", "prose"}, a.before \o <<a.subject>> \o a.after)
    IN IF a.wrapped THEN H("div", {}, <<container>>) ELSE container

\* a is a message: one child of the content root under study, between
\* paragraphs or alone. A table has at most one head, as HTML allows.
IsMessage(a) ==
    \E before \in Context : \E after \in Context : \E wrapped \in BOOLEAN :
        \/ \E s \in BlockSamples :
               a = [before |-> before, subject |-> s, after |-> after, wrapped |-> wrapped]
        \/ \E t \in InlineBlockTags : \E k \in 0..MaxInline : \E kids \in [1..k -> BlockKids] :
               a = [before |-> before, subject |-> H(t, {}, kids),
                    after |-> after, wrapped |-> wrapped]
        \/ \E k \in 0..MaxSections : \E secs \in [1..k -> TableSections] :
               /\ Cardinality({i \in 1..k : secs[i].tag = "thead"}) <= 1
               /\ a = [before |-> before, subject |-> H("table", {}, secs),
                       after |-> after, wrapped |-> wrapped]

\* a is an element with up to MaxInline child nodes.
IsInlineHost(a) ==
    \E k \in 0..MaxInline : \E kids \in [1..k -> InlineSamples] : a = H("p", {}, kids)

\* The call is handed the root of the live tree.
LiveRoot == Handle("live", <<>>)

InitDom ==
    /\ pc = "call"
    /\ ret = NoRet
    /\ env = NoEnv
    /\ \/ fn \in {"extractContent", "getCleanHtmlWithMathML"}
            /\ IsMessage(arg) /\ dom = MessageOf(arg)
       \/ fn = "extractInlineContent" /\ IsInlineHost(arg) /\ dom = arg

CallExtractContent ==
    /\ pc = "call"
    /\ fn = "extractContent"
    /\ ret' = Returned(extractContent(dom))
    /\ dom' = extractContentWrites(Heap(dom), LiveRoot).live
    /\ pc' = "done"
    /\ UNCHANGED <<fn, arg, env>>

\* extractInlineContent calls nothing that writes: walk and extractMathBlock
\* read, and the clone extractMathBlock makes is only searched.
CallExtractInlineContent ==
    /\ pc = "call"
    /\ fn = "extractInlineContent"
    /\ ret' = Returned(extractInlineContent(dom))
    /\ pc' = "done"
    /\ UNCHANGED <<fn, arg, dom, env>>

\* getCleanHtmlWithMathML: the container is cloned, the three passes run one
\* after the other, each on the trees the pass before left, and the clone's
\* innerHTML is returned.
CallGetCleanHtmlWithMathML ==
    /\ pc = "call"
    /\ fn = "getCleanHtmlWithMathML"
    /\ \E made \in {cloneNode(Heap(dom), markdownHandle(Heap(dom), LiveRoot))} :
       \E replaced \in {withMathML(made.heap, made.node)} :
       \E bare \in {withoutKatexHtml(replaced, made.node)} :
       \E cleaned \in {withPlainHeaders(bare, made.node)} :
           /\ ret' = Returned(innerHTML(Deref(cleaned, made.node)))
           /\ dom' = cleaned.live
    /\ pc' = "done"
    /\ UNCHANGED <<fn, arg, env>>

NextDom == CallExtractContent \/ CallExtractInlineContent \/ CallGetCleanHtmlWithMathML

SpecDom == InitDom /\ [][NextDom]_vars

\* ------------------------------------------------------ escapeXml: claims

\* The XML-illegal control characters among the characters of the model: the
\* C0 range without TAB, LF and CR, and DEL.
IllegalControls ==
    {"U+0000", "U+0001", "U+0008", "U+000B", "U+000C", "U+000E", "U+001F", "U+007F"}

\* Characters that must survive escaping untouched: TAB, LF, CR and non-ASCII.
KeptVerbatim == {"\t", "\n", "\r", "U+03C0"}

RECURSIVE Filter(_, _)
\* The subsequence of s of the characters in S.
Filter(s, S) ==
    IF s = <<>> THEN <<>>
    ELSE (IF Head(s) \in S THEN <<Head(s)>> ELSE <<>>) \o Filter(Tail(s), S)

RECURSIVE Without(_, _)
\* s without the characters in S.
Without(s, S) ==
    IF s = <<>> THEN <<>>
    ELSE (IF Head(s) \in S THEN <<>> ELSE <<Head(s)>>) \o Without(Tail(s), S)

\* The entity of a reserved character; any other character stands for itself.
EntityOf(c) ==
    CASE c = "&" -> AMP
      [] c = "<" -> LT
      [] c = ">" -> GT
      [] c = "\"" -> QUOT
      [] c = "'" -> APOS
      [] OTHER -> <<c>>

\* Each character replaced, once, by its entity.
EscapedOnce(s) == Concat([i \in 1..Len(s) |-> EntityOf(s[i])])

EscapeDone == pc = "done" /\ fn = "escapeXml"

\* C4: escapeXml returns the empty string, without throwing, for null, for
\* undefined and for the empty string.
C4_NullishGivesEmptyString ==
    (EscapeDone /\ (arg.t \in {"null", "undefined"} \/ arg = JsString(<<>>)))
        => ret = Returned(<<>>)

\* C5: the output of escapeXml holds no C0 control character other than TAB, LF
\* and CR and no DEL, and TAB, LF, CR and the non-ASCII characters of the input
\* are in the output unchanged and in order.
C5_ControlCharactersStripped ==
    (EscapeDone /\ arg.t = "string") =>
        /\ ~ret.threw
        /\ \A i \in 1..Len(ret.val) : ret.val[i] \notin IllegalControls
        /\ Filter(ret.val, KeptVerbatim) = Filter(arg.s, KeptVerbatim)

\* C6: escapeXml replaces each of the five reserved characters by its entity
\* exactly once (an ampersand produced by an entity is not escaped again) and
\* leaves no raw < > " ' behind.  Control characters are left out of the
\* comparison: what happens to them is not this claim's matter.
C6_ReservedEscapedExactlyOnce ==
    (EscapeDone /\ arg.t = "string") =>
        /\ ~ret.threw
        /\ Without(ret.val, IllegalControls)
             = EscapedOnce(Without(arg.s, IllegalControls))
        /\ \A i \in 1..Len(ret.val) : ret.val[i] \notin {"<", ">", "\"", "'"}

\* C6's case: a string with an ampersand and another reserved character has
\* been escaped.
C6_Witness ==
    /\ EscapeDone
    /\ arg = JsString(<<"&", "<", "a">>)
    /\ ret = Returned(AMP \o LT \o <<"a">>)
\* --------------------------------------------- math converters: claims

MathDone == pc = "done" /\ fn \in {"mathmlToOmml", "latexToOmml"}

HasToken(omml, t) == \E i \in 1..Len(omml) : omml[i] = t
CountOf(omml, t) == Cardinality({i \in 1..Len(omml) : omml[i] = t})

\* The escaping primitive as the specification defines it: illegal control
\* characters removed, each reserved character replaced by its entity.
XmlEscaped(s) == EscapedOnce(Without(s, IllegalControls))

\* The text-only fallback fragment for the given character data.
FallbackOf(chars) ==
    <<Open("m:oMath"), Open("m:r"), Open("m:t"), Text(chars),
      Close("m:t"), Close("m:r"), Close("m:oMath")>>

\* C1: for an input that is not well-formed XML mathmlToOmml does not throw and
\* returns exactly <m:oMath><m:r><m:t>E</m:t></m:r></m:oMath>, E the XML-escaped
\* input.
C1_FallbackIsEscapedInput ==
    (MathDone /\ fn = "mathmlToOmml" /\ ~arg.wellFormed)
        => ret = Returned(FallbackOf(XmlEscaped(arg.text)))

\* What the code does return there: the fallback around the input with the
\* five reserved characters escaped and its control characters kept.
FallbackKeepsControls ==
    (MathDone /\ fn = "mathmlToOmml" /\ ~arg.wellFormed)
        => ret = Returned(FallbackOf(EscapedOnce(arg.text)))

\* The constructs whose tags the converters emit in pairs.
OmmlConstructs ==
    {"m:f", "m:r", "m:rad", "m:sSub", "m:sSup", "m:sSubSup", "m:acc", "m:d", "m:nary",
     "m:m", "m:borderBox", "m:oMath", "m:oMathPara"}

RECURSIVE NestsFrom(_, _, _)
\* From position i on, every closing tag closes the element opened last (the
\* head of stack), and at the end every element has been closed.
NestsFrom(omml, i, stack) ==
    IF i > Len(omml) THEN stack = <<>>
    ELSE LET t == omml[i]
         IN CASE t.k = "open" -> NestsFrom(omml, i + 1, <<t.n>> \o stack)
              [] t.k = "close" ->
                   stack # <<>> /\ Head(stack) = t.n /\ NestsFrom(omml, i + 1, Tail(stack))
              [] OTHER -> NestsFrom(omml, i + 1, stack)

Nests(omml) == NestsFrom(omml, 1, <<>>)

\* No character data and no attribute value holds a raw '<', which would start
\* a tag of its own.
NoRawTagStart(omml) ==
    \A i \in 1..Len(omml) : \A j \in 1..Len(omml[i].v) : omml[i].v[j] # "<"

\* C2: in every fragment mathmlToOmml or latexToOmml returns, each OMML
\* construct has as many opening as closing tags and the tags nest properly.
C2_TagsBalancedAndNested ==
    (MathDone /\ ~ret.threw) =>
        /\ \A n \in OmmlConstructs : CountOf(ret.val, Open(n)) = CountOf(ret.val, Close(n))
        /\ Nests(ret.val)
        /\ NoRawTagStart(ret.val)

\* C2's case: a fraction inside a script construct has been emitted.
C2_Witness ==
    /\ MathDone
    /\ ~ret.threw
    /\ HasToken(ret.val, Open("m:f"))
    /\ HasToken(ret.val, Open("m:sSup"))
    /\ HasToken(ret.val, Open("m:r"))

\* The run opened at position i carries the math font before it is closed.
RunHasFont(omml, i) ==
    \E j \in (i + 1)..Len(omml) :
        /\ omml[j] = RFonts
        /\ \A k \in (i + 1)..j : omml[k] # Close("m:r")

\* C3: every run (m:r) of every returned fragment carries the Cambria Math font
\* directive, the run of the fallback for unparseable input included.
C3_EveryRunHasMathFont ==
    (MathDone /\ ~ret.threw) =>
        \A i \in 1..Len(ret.val) : ret.val[i] = Open("m:r") => RunHasFont(ret.val, i)

\* Outside the fallback every run does carry it.
ConvertedRunsHaveMathFont ==
    (MathDone /\ ~ret.threw /\ (fn = "mathmlToOmml" => arg.wellFormed)) =>
        \A i \in 1..Len(ret.val) : ret.val[i] = Open("m:r") => RunHasFont(ret.val, i)

\* The fragment is one m:oMathPara element around one m:oMath element.
IsPara(omml) ==
    /\ Len(omml) >= 4
    /\ omml[1] = Open("m:oMathPara") /\ omml[2] = Open("m:oMath")
    /\ omml[Len(omml) - 1] = Close("m:oMath") /\ omml[Len(omml)] = Close("m:oMathPara")
    /\ CountOf(omml, Open("m:oMath")) = 1

\* The fragment is one bare m:oMath element.
IsBareMath(omml) ==
    /\ Len(omml) >= 2
    /\ omml[1] = Open("m:oMath") /\ omml[Len(omml)] = Close("m:oMath")
    /\ CountOf(omml, Open("m:oMath")) = 1
    /\ ~HasToken(omml, Open("m:oMathPara"))

\* Display is requested: the display argument of latexToOmml, or display="block"
\* on the math element (the document element when there is no math element) of
\* a parsed MathML document.
DisplayRequested ==
    IF fn = "latexToOmml" THEN arg.display
    ELSE arg.wellFormed /\ locateMath(arg.root).attrs.display = Block

\* C7: the returned fragment is wrapped in m:oMathPara if and only if display
\* is requested; otherwise it is a bare m:oMath element.
C7_ParaIffDisplay ==
    (MathDone /\ ~ret.threw) =>
        IF DisplayRequested THEN IsPara(ret.val) ELSE IsBareMath(ret.val)

\* C7's case: a MathML document whose math root carries display="block" has
\* been converted.
C7_Witness ==
    /\ MathDone
    /\ fn = "mathmlToOmml"
    /\ arg.wellFormed
    /\ arg.root.tag = "math" /\ arg.root.attrs.display = Block
    /\ HasToken(ret.val, Open("m:rad"))
    /\ IsPara(ret.val)

\* --------------------------------------------------- dom-extractor: claims

ContentDone == pc = "done" /\ fn = "extractContent"
InlineDone == pc = "done" /\ fn = "extractInlineContent"

\* sub occurs in s.
Contains(s, sub) ==
    \E i \in 1..(Len(s) - Len(sub) + 1) : SubSeq(s, i, i + Len(sub) - 1) = sub

WhitespaceText(n) == n.tag = "#text" /\ Trim(n.text) = <<>>

RECURSIVE OnlyChrome(_)
\* n is UI chrome: a button, or a div that holds chrome and nothing else.
OnlyChrome(n) ==
    \/ n.tag = "button"
    \/ /\ n.tag = "div"
       /\ \E i \in 1..Len(n.kids) : IsElement(n.kids[i])
       /\ \A i \in 1..Len(n.kids) :
              WhitespaceText(n.kids[i]) \/ (IsElement(n.kids[i]) /\ OnlyChrome(n.kids[i]))

RECURSIVE IsTableWrapper(_)
\* n is a div around one table (directly, or inside further such divs) whose
\* other children are UI chrome or white space.
IsTableWrapper(n) ==
    /\ n.tag = "div"
    /\ \E i \in 1..Len(n.kids) :
           /\ n.kids[i].tag = "table" \/ IsTableWrapper(n.kids[i])
           /\ \A j \in 1..Len(n.kids) :
                  j # i => WhitespaceText(n.kids[j]) \/ OnlyChrome(n.kids[j])

HasButton(n) == FirstTagged(Descendants(n), {"button"}) # NullNode

\* The blocks of the paragraphs around the child under study.
BlocksOf(context) == extractContent(H("div", {"markdown", "prose"}, context))

\* No text of block b holds the chrome's text.
ChromeFree(b) ==
    /\ "text" \in DOMAIN b => ~Contains(b.text, CopyText)
    /\ "rows" \in DOMAIN b =>
           \A r \in 1..Len(b.rows) : \A c \in 1..Len(b.rows[r].cells) :
               ~Contains(b.rows[r].cells[c].text, CopyText)

\* C8: a direct child of the content root that is a wrapper div (possibly
\* nested) around a table with sibling UI chrome yields exactly one block, of
\* type table, built from the rows and cells of that table, and no block holds
\* text of the chrome.
C8_WrappedTableGivesTableBlock ==
    (ContentDone /\ IsTableWrapper(arg.subject) /\ HasButton(arg.subject)) =>
        /\ ~ret.threw
        /\ ret.val = BlocksOf(arg.before)
                       \o <<[type |-> "table",
                             rows |-> extractTableRows(
                                          FirstTagged(Descendants(arg.subject), {"table"}))]>>
                       \o BlocksOf(arg.after)
        /\ \A i \in 1..Len(ret.val) : ChromeFree(ret.val[i])

\* C9: a direct-child div that holds only UI chrome yields no block: the
\* blocks are those of the message without that div.
C9_ChromeOnlyDivGivesNoBlock ==
    (ContentDone /\ arg.subject.tag = "div" /\ OnlyChrome(arg.subject)) =>
        /\ ~ret.threw
        /\ ret.val = BlocksOf(arg.before \o arg.after)

\* A chrome-only div whose buttons carry no text is dropped: its inline
\* content is empty.
TextlessChromeGivesNoBlock ==
    (ContentDone /\ arg.subject.tag = "div" /\ OnlyChrome(arg.subject)
        /\ textContent(arg.subject) = <<>>) =>
        ret.val = BlocksOf(arg.before \o arg.after)

RECURSIVE Flat(_)
\* The items of a result with the content of bold and italic items in place.
Flat(items) ==
    Concat([i \in 1..Len(items) |->
                IF items[i].type \in {"bold", "italic"}
                THEN Flat(items[i].content) ELSE <<items[i]>>])
MathItems(items) == SelectSeq(Flat(items), LAMBDA it : it.type = "math")
TextItems(items) == SelectSeq(Flat(items), LAMBDA it : it.type = "text")

\* The rendered-formula elements inside el, in document order, as paths.
KatexPaths(el) == SelectSeq(PathsIn(el, <<>>), LAMBDA p : "katex" \in NodeAt(el, p).cls)

\* The formula at path p of el has no ancestor below el that is a code, a,
\* sup or sub element, another rendered formula or a hidden-MathML container.
Walked(el, p) ==
    \A k \in 1..(Len(p) - 1) :
        LET anc == NodeAt(el, SubSeq(p, 1, k))
        IN anc.tag \notin {"code", "a", "sup", "sub"}
               /\ anc.cls \cap {"katex", "katex-mathml"} = {}

MathItemsFor(el, paths) ==
    [i \in 1..Len(paths) |-> extractMathBlock(NodeAt(el, paths[i]), FALSE)]

NoFormulaText(items) ==
    \A i \in 1..Len(TextItems(items)) : ~Contains(TextItems(items)[i].text, FormulaText)

\* C10 (as stated): for every rendered-formula element inside the element
\* handed to extractInlineContent the result holds exactly one math item, and
\* no text item comes from inside a formula.
C10_OneMathItemPerFormula ==
    InlineDone =>
        /\ MathItems(ret.val) = MathItemsFor(arg, KatexPaths(arg))
        /\ NoFormulaText(ret.val)

\* C10 (amended): for every rendered-formula element inside the element that
\* is not within a code, a, sup or sub element, another rendered formula or a
\* hidden-MathML container, the result (with the content of bold and italic
\* items) holds exactly one math item, in document order, and no text item
\* comes from inside a formula; the other formulas yield no math item.
C10_OneMathItemPerWalkedFormula ==
    InlineDone =>
        /\ ~ret.threw
        /\ MathItems(ret.val)
               = MathItemsFor(arg, SelectSeq(KatexPaths(arg), LAMBDA p : Walked(arg, p)))
        /\ NoFormulaText(ret.val)

\* A formula inside a bold element next to a formula inside a text-only
\* element or another formula: one math item, nested in the bold item.
C10_Witness ==
    /\ InlineDone
    /\ \E p \in {KatexPaths(arg)[i] : i \in 1..Len(KatexPaths(arg))} :
           Len(p) = 2 /\ Walked(arg, p) /\ NodeAt(arg, <<p[1]>>).tag = "strong"
    /\ \E p \in {KatexPaths(arg)[i] : i \in 1..Len(KatexPaths(arg))} : ~Walked(arg, p)
    /\ Len(MathItems(ret.val)) = 1
    /\ Len(ret.val) = 2

\* The formula at path p of el sits inside a display-formula wrapper.
InDisplay(el, p) ==
    \E k \in 1..(Len(p) - 1) : "katex-display" \in NodeAt(el, SubSeq(p, 1, k)).cls

WalkedKatexPaths(el) == SelectSeq(KatexPaths(el), LAMBDA p : Walked(el, p))

\* C21: the math items of the result stand for the walked formulas in
\* document order, and the display flag of each is true exactly when its
\* formula sits inside a .katex-display wrapper.
C21_DisplayIffInDisplayWrapper ==
    InlineDone =>
        \E paths \in {WalkedKatexPaths(arg)} : \E items \in {MathItems(ret.val)} :
            /\ Len(items) = Len(paths)
            /\ \A i \in 1..Len(items) : items[i].display = InDisplay(arg, paths[i])

\* The flag is never true, and a formula inside a wrapper does get an item.
DisplayNeverSet ==
    InlineDone => \A i \in 1..Len(MathItems(ret.val)) : ~MathItems(ret.val)[i].display
WrappedFormulaSeen ==
    /\ InlineDone
    /\ \E i \in 1..Len(WalkedKatexPaths(arg)) : InDisplay(arg, WalkedKatexPaths(arg)[i])
    /\ Len(MathItems(ret.val)) = Len(WalkedKatexPaths(arg))

RECURSIVE WithoutLists(_)
\* node without the ul and ol elements inside it.
WithoutLists(node) ==
    [node EXCEPT !.kids =
        LET kept == SelectSeq(node.kids, LAMBDA k : k.tag \notin Lists)
        IN [i \in 1..Len(kept) |-> WithoutLists(kept[i])]]

RECURSIVE ItemsApart(_)
\* The items of a list with what each li holds outside its nested lists as
\* the item's own content and text, and the nested list in nestedList.
ItemsApart(listEl) ==
    LET lis == SelectSeq(children(listEl), LAMBDA c : c.tag = "li")
        item(li) ==
            LET nestedList == FirstTagged(Descendants(li), Lists)
                own == [content |-> extractInlineContent(WithoutLists(li)),
                        text |-> Trim(textContent(WithoutLists(li)))]
            IN IF nestedList = NullNode THEN own
               ELSE [content |-> own.content, text |-> own.text,
                     nestedList |-> [ordered |-> nestedList.tag = "ol",
                                     items |-> ItemsApart(nestedList)]]
    IN [i \in 1..Len(lis) |-> item(lis[i])]

ListBlocksIn(blocks) == SelectSeq(blocks, LAMBDA b : b.type = "list")

\* C22: the item of every li has as content and text what the li holds
\* outside its nested lists, and the nested list, taken the same way, in
\* nestedList: no text of a nested list stands in the parent item as well.
C22_NestedListsKeptApart ==
    (ContentDone /\ arg.subject.tag \in Lists) =>
        /\ ~ret.threw
        /\ ListBlocksIn(ret.val)
            = <<[type |-> "list", ordered |-> arg.subject.tag = "ol",
                 items |-> ItemsApart(arg.subject)]>>

\* Of the item only the text is free of the nested list.
OnlyTextKeptApart ==
    (ContentDone /\ arg.subject.tag \in Lists) =>
        \E got \in {ListBlocksIn(ret.val)[1].items} :
        \E claimed \in {ItemsApart(arg.subject)} :
            /\ Len(got) = Len(claimed)
            /\ \A i \in 1..Len(got) :
                /\ got[i].text = claimed[i].text
                /\ got[i].content = extractInlineContent(
                       SelectSeq(children(arg.subject), LAMBDA c : c.tag = "li")[i])

\* ------------------------------------- dom-extractor: claims on the live tree

CleanDone == pc = "done" /\ fn = "getCleanHtmlWithMathML"

\* C11: extractContent, extractInlineContent and getCleanHtmlWithMathML leave
\* the caller's DOM tree as it was: every removal, replacement, attribute write
\* and text write goes to a clone.
C11_SourceTreeUnchanged == [][dom' = dom]_vars

\* getCleanHtmlWithMathML has returned HTML that differs from the container's
\* own (it has written), and the live tree is still the message it was handed.
C11_Witness ==
    /\ CleanDone
    /\ dom = MessageOf(arg)
    /\ ret.val # innerHTML(getMarkdownContent(dom))

\* The rows of a table block, as the claim describes them: the cells of a row
\* in source order, each with its text. The cells of the tables hold text only.
RowOf(tr, isHeader) ==
    [isHeader |-> isHeader,
     cells |-> [i \in 1..Len(tr.kids) |->
                    [content |-> [j \in 1..Len(tr.kids[i].kids) |->
                                      [type |-> "text", text |-> tr.kids[i].kids[j].text]],
                     text |-> Trim(textContent(tr.kids[i]))]]]
IsTr(n) == n.tag = "tr"
\* The rows under the sections of table with one of the tags, in source order.
RowsUnder(table, tags) ==
    Concat([i \in 1..Len(table.kids) |->
                IF table.kids[i].tag \in tags THEN SelectSeq(table.kids[i].kids, IsTr)
                ELSE <<>>])
HeadRows(table) == RowsUnder(table, {"thead"})
\* The rows of the first tbody; without a tbody, the rows of the table that are
\* not under thead.
BodyRows(table) ==
    LET bodies == SelectSeq(table.kids, LAMBDA n : n.tag = "tbody")
    IN IF bodies # <<>> THEN SelectSeq(bodies[1].kids, IsTr)
       ELSE Concat([i \in 1..Len(table.kids) |->
                        IF IsTr(table.kids[i]) THEN <<table.kids[i]>>
                        ELSE IF table.kids[i].tag = "thead" THEN <<>>
                        ELSE SelectSeq(table.kids[i].kids, IsTr)])

\* C12: the rows of a table are the rows under thead, each once and with
\* isHeader true, followed by the body rows (of tbody, or of the table itself
\* when it has no tbody) with isHeader false; no thead row comes again as a
\* body row; rows and cells keep their source order.
C12_HeaderRowsThenBodyRows ==
    (ContentDone /\ arg.subject.tag = "table") =>
        /\ ~ret.threw
        /\ Len(ret.val) = Len(arg.before) + 1 + Len(arg.after)
        /\ ret.val[Len(arg.before) + 1] =
               [type |-> "table",
                rows |-> [i \in 1..Len(HeadRows(arg.subject)) |->
                              RowOf(HeadRows(arg.subject)[i], TRUE)]
                         \o [i \in 1..Len(BodyRows(arg.subject)) |->
                              RowOf(BodyRows(arg.subject)[i], FALSE)]]

\* A table whose head of two rows comes after a row of the table itself, and
\* that has no tbody: the two head rows first, then the one body row.
C12_Witness ==
    /\ ContentDone
    /\ arg.subject.tag = "table"
    /\ Len(arg.subject.kids) = 2
    /\ IsTr(arg.subject.kids[1])
    /\ Len(HeadRows(arg.subject)) = 2
    /\ Len(ret.val[Len(arg.before) + 1].rows) = 3
    /\ ret.val[Len(arg.before) + 1].rows[3].isHeader = FALSE

\* C13: the HTML getCleanHtmlWithMathML returns holds no UI chrome: no button,
\* no text of a button, no aria-label.
C13_NoChromeInHtml ==
    CleanDone =>
        \A i \in 1..Len(ret.val) :
            LET tok == ret.val[i]
            IN /\ tok.k = "text" => ~Contains(tok.v, CopyText)
               /\ tok.k = "open" => tok.n # "button" /\ tok.attrs.arialabel = Null

\* Without chrome in the message there is none in the HTML.
ChromeOnlyFromSource ==
    (CleanDone /\ ~HasButton(dom)) =>
        \A i \in 1..Len(ret.val) :
            ret.val[i].k = "text" => ~Contains(ret.val[i].v, CopyText)

\* The math element a rendered formula embeds, as a list of at most one node.
EmbeddedMath(katex) ==
    LET holders == SelectSeq(Descendants(katex), LAMBDA n : "katex-mathml" \in n.cls)
        maths == IF holders = <<>> THEN <<>>
                 ELSE SelectSeq(Descendants(holders[1]), LAMBDA n : n.tag = "math")
    IN IF maths = <<>> THEN <<>> ELSE <<maths[1]>>

\* The formula a display wrapper holds, as a list of at most one node.
FormulaIn(wrapper) ==
    LET found == SelectSeq(Descendants(wrapper),
                           LAMBDA n : "katex" \in n.cls /\ EmbeddedMath(n) # <<>>)
    IN IF found = <<>> THEN <<>> ELSE <<found[1]>>

RECURSIVE Spliced(_)
\* The tree the claim describes: a display wrapper gives way to the math
\* element of its formula, with display="block"; a formula outside such a
\* wrapper gives way to its math element as it is; no .katex-html element is
\* left; a code-block header holds its trimmed text.
Spliced(node) ==
    IF node.tag = "#text" THEN node
    ELSE IF "katex-display" \in node.cls /\ FormulaIn(node) # <<>>
    THEN [EmbeddedMath(FormulaIn(node)[1])[1] EXCEPT !.attrs.display = Block]
    ELSE IF "katex" \in node.cls /\ EmbeddedMath(node) # <<>>
    THEN EmbeddedMath(node)[1]
    ELSE IF "code-block-header" \in node.cls /\ Trim(textContent(node)) # <<>>
    THEN [node EXCEPT !.kids = <<Txt(Trim(textContent(node)))>>]
    ELSE [node EXCEPT !.kids =
             LET kept == SelectSeq(node.kids, LAMBDA n : "katex-html" \notin n.cls)
             IN [i \in 1..Len(kept) |-> Spliced(kept[i])]]

\* C14: in the HTML every rendered formula that embeds a math element has given
\* way, in its place, to a copy of that math element, which carries
\* display="block" exactly if the formula stood in a .katex-display wrapper,
\* and no .katex-html element is left.
C14_FormulasGiveWayToMathML ==
    CleanDone =>
        /\ ~ret.threw
        /\ ret.val = innerHTML(Spliced(getMarkdownContent(MessageOf(arg))))
        /\ \A i \in 1..Len(ret.val) :
               ret.val[i].k = "open" => "katex-html" \notin ret.val[i].cls

\* A display formula: the HTML holds a math element with display="block" and
\* no element of class katex or katex-display.
C14_Witness ==
    /\ CleanDone
    /\ "katex-display" \in arg.subject.cls
    /\ \E i \in 1..Len(ret.val) :
           /\ ret.val[i].k = "open"
           /\ ret.val[i].n = "math"
           /\ ret.val[i].attrs.display = Block
    /\ \A i \in 1..Len(ret.val) :
           ret.val[i].k = "open" => ret.val[i].cls \cap {"katex", "katex-display"} = {}

\* ------------------------------------------------- browser-api.js: the globals

\* The two globals an extension page may see.  Each is undefined or an object
\* holding some of the namespaces; a namespace an object holds is complete
\* (storage has local, tabs has query and sendMessage, runtime has onMessage
\* and onInstalled, downloads has download).
Namespaces == {"runtime", "storage", "tabs", "downloads"}
Api(name, parts) == [name |-> name, parts |-> parts]
Undefined == Api("#undefined", {})
NullApi == Api("#null", {})

\* api?.ns?.member
Has(api, ns) == ns \in api.parts

\* JavaScript values that cross the API.
EmptyObject == [t |-> "object", keys |-> {}]
EmptyArray == [t |-> "array", items |-> <<>>]
JsObject(keys) == [t |-> "object", keys |-> keys]
JsArray(items) == [t |-> "array", items |-> items]
JsError(message) == [t |-> "error", message |-> message]
Falsy(v) == v.t \in {"undefined", "null"}

\* A promise and how it stands.
Pending == [state |-> "pending", with |-> JsUndefined]
Resolved(v) == [state |-> "resolved", with |-> v]
Rejected(e) == [state |-> "rejected", with |-> e]

\* typeof browser !== 'undefined' && typeof browser.runtime !== 'undefined'
isFirefox(e) ==
    e.browser # Undefined /\ Has(e.browser, "runtime")

\* isChromium without its last conjunct.
isChromiumAlone(e) ==
    e.chrome # Undefined /\ Has(e.chrome, "runtime")

isChromium(e) ==
    e.chrome # Undefined /\ Has(e.chrome, "runtime") /\ ~isFirefox(e)

getAPI(e) ==
    IF isFirefox(e) THEN e.browser
    ELSE IF e.chrome # Undefined THEN e.chrome
    ELSE NullApi

\* The call api.<method>(arg[, callback]) as the browser sees it.
NativeCall(api, method, with, callback) ==
    [on |-> api.name, method |-> method, with |-> with, callback |-> callback]

\* What a helper call leaves behind: the value it returns, the environment
\* after it, and whether the returned promise waits for the browser's
\* callback ("pending"), is the browser's own promise ("native"), or is
\* already settled ("done").
Left(r, e, p) == [ret |-> r, env |-> e, pc |-> p]

\* The three ways every promise helper goes: no such API, Firefox, Chrome.
viaApi(e, ns, method, with, fallback) ==
    LET api == getAPI(e) IN
    IF ~Has(api, ns) THEN Left(Returned(fallback), e, "done")
    ELSE IF isFirefox(e)
    THEN Left(Returned(Pending),
              [e EXCEPT !.called = Append(@, NativeCall(api, method, with, FALSE))],
              "native")
    ELSE Left(Returned(Pending),
              [e EXCEPT !.called = Append(@, NativeCall(api, method, with, TRUE))],
              "pending")

storageGet(e, keys) ==
    viaApi(e, "storage", "storage.local.get", keys, Resolved(EmptyObject))

storageSet(e, data) ==
    viaApi(e, "storage", "storage.local.set", data, Resolved(JsUndefined))

tabsQuery(e, queryInfo) ==
    viaApi(e, "tabs", "tabs.query", queryInfo, Resolved(EmptyArray))

tabsSendMessage(e, message) ==
    viaApi(e, "tabs", "tabs.sendMessage", message,
           Rejected(JsError("tabs API unavailable")))

\* download with its first return resolving like the storage helpers.
downloadResolving(e, options) ==
    viaApi(e, "downloads", "downloads.download", options, Resolved(JsUndefined))

download(e, options) ==
    viaApi(e, "downloads", "downloads.download", options,
           Rejected(JsError("downloads API unavailable")))

\* onMessage and onInstalled: addListener on the event, if there is one.
addListener(e, event, handler) ==
    IF ~Has(getAPI(e), "runtime") THEN Left(Returned(JsUndefined), e, "done")
    ELSE Left(Returned(JsUndefined),
              [e EXCEPT !.listeners = @ \cup {[event |-> event, handler |-> handler]}],
              "done")

onMessage(e, handler) == addListener(e, "runtime.onMessage", handler)
onInstalled(e, handler) == addListener(e, "runtime.onInstalled", handler)

\* The callbacks the Chrome branch hands to the browser.  api is the object
\* getAPI() returned when the helper was called.
\* (result) => resolve(result || {}), () => resolve(), (tabs) => resolve(tabs || [])
plainCallback(f, response) ==
    IF f = "storageGet" THEN Resolved(IF Falsy(response) THEN EmptyObject ELSE response)
    ELSE IF f = "storageSet" THEN Resolved(JsUndefined)
    ELSE Resolved(IF Falsy(response) THEN EmptyArray ELSE response)

\* The checking callback with the lastError test left out.
checkedCallbackBlind(e, response) ==
    Resolved(response)

\* (response) => { if (api.runtime.lastError) reject(new Error(...)) else resolve(response) }
checkedCallback(e, response) ==
    IF ~Falsy(e.lastError)
    THEN Rejected(JsError(e.lastError.message))
    ELSE Resolved(response)

\* ------------------------------------------------- browser-api.js: calls

ApiFns ==
    {"isFirefox", "isChromium", "getAPI", "storageGet", "storageSet", "tabsQuery",
     "tabsSendMessage", "onMessage", "onInstalled", "download"}

\* The values the browser hands to a callback or settles its promise with.
Responses ==
    {JsUndefined, JsNull, JsObject({"success"}), JsArray(<<"tab">>)}

LastErrors ==
    {[t |-> "object", message |-> "Could not establish connection"]}

Globals ==
    {Api("browser", p) : p \in SUBSET Namespaces}
        \cup {Api("chrome", p) : p \in SUBSET Namespaces}
        \cup {Undefined}

\* browser is undefined or a browser object; chrome is undefined, a chrome
\* object, or (Firefox) the browser object under its second name.
IsEnvironment(e) ==
    /\ e.browser \in Globals /\ e.browser.name # "chrome"
    /\ e.chrome \in Globals
    /\ e.chrome.name = "browser" => e.chrome = e.browser
    /\ e.lastError = JsUndefined
    /\ e.listeners = {}
    /\ e.called = <<>>
    /\ e.delivered = JsUndefined
    /\ e.uncaught = FALSE

InitApi ==
    /\ pc = "call"
    /\ fn \in ApiFns
    /\ arg = JsObject({fn})
    /\ ret = NoRet
    /\ dom = NoDom
    /\ env \in [browser : Globals, chrome : Globals, lastError : {JsUndefined},
                listeners : {{}}, called : {<<>>}, delivered : {JsUndefined},
                uncaught : {FALSE}]
    /\ IsEnvironment(env)

CallIsFirefox ==
    /\ pc = "call" /\ fn = "isFirefox"
    /\ ret' = Returned(isFirefox(env))
    /\ pc' = "done"
    /\ UNCHANGED <<fn, arg, dom, env>>

CallIsChromium ==
    /\ pc = "call" /\ fn = "isChromium"
    /\ ret' = Returned(isChromium(env))
    /\ pc' = "done"
    /\ UNCHANGED <<fn, arg, dom, env>>

CallGetAPI ==
    /\ pc = "call" /\ fn = "getAPI"
    /\ ret' = Returned(getAPI(env))
    /\ pc' = "done"
    /\ UNCHANGED <<fn, arg, dom, env>>

Leave(left) ==
    /\ ret' = left.ret
    /\ env' = left.env
    /\ pc' = left.pc
    /\ UNCHANGED <<fn, arg, dom>>

CallStorageGet == pc = "call" /\ fn = "storageGet" /\ Leave(storageGet(env, arg))
CallStorageSet == pc = "call" /\ fn = "storageSet" /\ Leave(storageSet(env, arg))
CallTabsQuery == pc = "call" /\ fn = "tabsQuery" /\ Leave(tabsQuery(env, arg))
CallTabsSendMessage == pc = "call" /\ fn = "tabsSendMessage" /\ Leave(tabsSendMessage(env, arg))
CallOnMessage == pc = "call" /\ fn = "onMessage" /\ Leave(onMessage(env, arg))
CallOnInstalled == pc = "call" /\ fn = "onInstalled" /\ Leave(onInstalled(env, arg))
CallDownload == pc = "call" /\ fn = "download" /\ Leave(download(env, arg))

\* The browser runs the callback of a storage or query call.
RunPlainCallback ==
    /\ pc = "pending"
    /\ fn \in {"storageGet", "storageSet", "tabsQuery"}
    /\ \E response \in Responses :
        /\ ret' = Returned(plainCallback(fn, response))
        /\ env' = [env EXCEPT !.delivered = response]
    /\ pc' = "done"
    /\ UNCHANGED <<fn, arg, dom>>

\* The browser runs the callback of tabs.sendMessage or downloads.download.
\* Reading api.runtime.lastError of an object without runtime throws inside
\* the callback: the promise is left as it is.
RunCheckedCallback ==
    /\ pc = "pending"
    /\ fn \in {"tabsSendMessage", "download"}
    /\ \E response \in Responses :
        /\ env' = [env EXCEPT !.delivered = response,
                              !.uncaught = ~Has(getAPI(env), "runtime")]
        /\ ret' = IF Has(getAPI(env), "runtime")
                  THEN Returned(checkedCallback(env, response))
                  ELSE ret
    /\ pc' = "done"
    /\ UNCHANGED <<fn, arg, dom>>

\* Firefox settles the promise its own API returned.
NativeSettle ==
    /\ pc = "native"
    /\ \E settled \in {Resolved(v) : v \in Responses}
                        \cup {Rejected(JsError(e.message)) : e \in LastErrors} :
        ret' = Returned(settled)
    /\ pc' = "done"
    /\ UNCHANGED <<fn, arg, dom, env>>

\* The browser sets runtime.lastError before a callback and clears it after.
SetLastError ==
    /\ pc \in {"pending", "done"}
    /\ Has(getAPI(env), "runtime")
    /\ Falsy(env.lastError)
    /\ \E e \in LastErrors : env' = [env EXCEPT !.lastError = e]
    /\ UNCHANGED <<fn, arg, ret, pc, dom>>

ClearLastError ==
    /\ ~Falsy(env.lastError)
    /\ \E cleared \in {JsNull, JsUndefined} : env' = [env EXCEPT !.lastError = cleared]
    /\ UNCHANGED <<fn, arg, ret, pc, dom>>

NextApi ==
    \/ CallIsFirefox \/ CallIsChromium \/ CallGetAPI
    \/ CallStorageGet \/ CallStorageSet \/ CallTabsQuery \/ CallTabsSendMessage
    \/ CallOnMessage \/ CallOnInstalled \/ CallDownload
    \/ RunPlainCallback \/ RunCheckedCallback \/ NativeSettle
    \/ SetLastError \/ ClearLastError

SpecApi == InitApi /\ [][NextApi]_vars

\* ------------------------------------------------- browser-api.js: claims

ApiDone(f) == pc = "done" /\ fn = f

\* C18: isFirefox() and isChromium() never both hold and neither holds when
\* both globals are undefined; getAPI() is the browser object under
\* isFirefox(), the chrome object under isChromium(), and null when both
\* globals are undefined - for the environment of every call, and as the
\* value a call of the function returns.
C18_DetectionIsExclusive ==
    /\ ~(isFirefox(env) /\ isChromium(env))
    /\ (env.browser = Undefined /\ env.chrome = Undefined)
        => ~isFirefox(env) /\ ~isChromium(env) /\ getAPI(env) = NullApi
    /\ isFirefox(env) => getAPI(env) = env.browser
    /\ isChromium(env) => getAPI(env) = env.chrome
    /\ ApiDone("isFirefox") /\ ret.val => ~isChromium(env)
    /\ ApiDone("isChromium") /\ ret.val => ~isFirefox(env)
    /\ ApiDone("getAPI") =>
        /\ isFirefox(env) => ret.val = env.browser
        /\ isChromium(env) => ret.val = env.chrome
        /\ (env.browser = Undefined /\ env.chrome = Undefined) => ret.val = NullApi

\* Both globals carry a runtime (Firefox, where chrome is the browser object
\* again) and isChromium() has answered.
C18_Witness ==
    /\ ApiDone("isChromium")
    /\ Has(env.browser, "runtime") /\ Has(env.chrome, "runtime")
    /\ ret.val = FALSE

NoApiObject == env.browser = Undefined /\ env.chrome = Undefined

\* C17: with no API object the helpers return at once, call nothing, register
\* nothing and throw nothing: storageGet resolves with {}, storageSet
\* resolves, tabsQuery resolves with [], onMessage and onInstalled return,
\* tabsSendMessage and download reject with their 'unavailable' error.
C17_NoApiDegrades ==
    (NoApiObject /\ pc # "call" /\ fn \notin {"isFirefox", "isChromium", "getAPI"}) =>
        /\ pc = "done"
        /\ ~ret.threw
        /\ env.called = <<>> /\ env.listeners = {} /\ ~env.uncaught
        /\ fn = "storageGet" => ret.val = Resolved(EmptyObject)
        /\ fn = "storageSet" => ret.val.state = "resolved"
        /\ fn = "tabsQuery" => ret.val = Resolved(EmptyArray)
        /\ fn \in {"onMessage", "onInstalled"} => ret.val = JsUndefined
        /\ fn = "tabsSendMessage" => ret.val = Rejected(JsError("tabs API unavailable"))
        /\ fn = "download" => ret.val = Rejected(JsError("downloads API unavailable"))

C17_Witness ==
    NoApiObject /\ ApiDone("download") /\ ret.val.state = "rejected"

\* C16: on Chromium the promise of tabsSendMessage and of download stays
\* pending until the browser runs the callback; that step settles it -
\* rejected with an Error carrying runtime.lastError.message when lastError is
\* set at that moment, resolved with the callback's argument otherwise - and
\* no later step (lastError being set or cleared) changes it.
C16_SettlesOnceAtCallback ==
    [][(isChromium(env) /\ fn \in {"tabsSendMessage", "download"} /\ pc # "call") =>
        /\ pc = "pending" => ret.val = Pending
        /\ (pc = "pending" /\ pc' = "pending") => ret' = ret
        /\ (pc = "pending" /\ pc' = "done") =>
            ret'.val = IF env.lastError \in LastErrors
                       THEN Rejected(JsError(env.lastError.message))
                       ELSE Resolved(env'.delivered)
        /\ pc = "done" => ret' = ret /\ pc' = "done" /\ ret.val.state # "pending"
      ]_vars

\* A promise rejected by the callback, seen after lastError was cleared.
C16_Witness ==
    /\ isChromium(env) /\ ApiDone("tabsSendMessage")
    /\ ret.val.state = "rejected"
    /\ ret.val.with = JsError("Could not establish connection")
    /\ env.lastError = JsNull

\* ------------------------------------------------- content.js: handleExportDocx

\* data-message-author-role="assistant", and the start of a data-testid that
\* [data-testid^="conversation-turn-"] asks for (the rest is the turn number).
Assistant == <<"assistant">>
ConversationTurn == "conversation-turn-"

IsAssistantRole(document, p) == NodeAt(document, p).attrs.role = Assistant
IsAgentTurn(document, p) ==
    /\ "agent-turn" \in NodeAt(document, p).cls
    /\ \E k \in 0..(Len(p) - 1) :
        LET testid == NodeAt(document, SubSeq(p, 1, k)).attrs.testid
        IN testid # Null /\ testid[1] = ConversationTurn
IsMarkdownProse(document, p) == {"markdown", "prose"} \subseteq NodeAt(document, p).cls

\* The elements the first selector with a match matches, in document order,
\* each as its path from the body.
getAssistantMessages(document) ==
    LET all == PathsIn(document, <<>>)
        byRole == SelectSeq(all, LAMBDA p : IsAssistantRole(document, p))
        byTurn == SelectSeq(all, LAMBDA p : IsAgentTurn(document, p))
        byProse == SelectSeq(all, LAMBDA p : IsMarkdownProse(document, p))
    IN IF byRole # <<>> THEN byRole
       ELSE IF byTurn # <<>> THEN byTurn
       ELSE byProse

\* The path of the last assistant message, or no path (null).
NoPath == <<0>>
getLastAssistantMessage(document) ==
    LET messages == getAssistantMessages(document)
    IN IF messages # <<>> THEN messages[Len(messages)] ELSE NoPath

\* The results of the export handlers.  The two messages of content.js are
\* Russian ('Нет ответов ChatGPT на странице', 'Пустой ответ'); they are kept
\* here in Latin letters.
Success == [success |-> TRUE]
Failure(message) == [success |-> FALSE, error |-> message]
NoAnswersMessage == "Net otvetov ChatGPT na stranitse"
EmptyAnswerMessage == "Pustoj otvet"

\* mathMode: exportSettings.mathMode || 'omml'
mathModeOf(exportSettings) ==
    IF exportSettings.mathMode = "" THEN "omml" ELSE exportSettings.mathMode

\* The blob buildDocx resolves with, named by what it was built from.
Blob(blocks, options) == [blocks |-> blocks, options |-> options]

\* handleExportDocx up to its await: the result it returns at once, or the
\* call of buildDocx it waits for; and the document after extractContent.
exportStart(document, exportSettings) ==
    LET at == getLastAssistantMessage(document)
        lastMessage == NodeAt(document, at)
        blocks == extractContent(lastMessage)
        after == PutAt(document, at, extractContentWrites(Heap(lastMessage), LiveRoot).live)
    IN IF at = NoPath
       THEN [ret |-> Resolved(Failure(NoAnswersMessage)), built |-> <<>>,
             dom |-> document, pc |-> "done"]
       ELSE IF Len(blocks) = 0
       THEN [ret |-> Resolved(Failure(EmptyAnswerMessage)), built |-> <<>>,
             dom |-> after, pc |-> "done"]
       ELSE [ret |-> Pending,
             built |-> <<Blob(blocks, [title |-> "ChatGPT Response",
                                       mathMode |-> mathModeOf(exportSettings)])>>,
             dom |-> after, pc |-> "await"]

\* The catch block with the failure turned into a success.
exportCaughtSilent(e) ==
    Success

\* catch (e) { console.error(...); return { success: false, error: e.message } }
exportCaught(e) ==
    Failure(e.message)

\* downloadBlob: an <a download> for the blob is appended to the body and
\* clicked.
Anchor == H("a", {"#download"}, <<>>)
downloadBlob(document, blob, filename) ==
    [dom |-> [document EXCEPT !.kids = Append(@, Anchor)],
     clicked |-> [blob |-> blob, filename |-> filename]]

\* The pages: a body of up to MaxTurns turns.
MaxTurns == 2
Prose(kids) == H("div", {"markdown", "prose"}, kids)
Turns ==
    {[H("div", {}, <<Word>>) EXCEPT !.attrs = WithAttr("role", <<"user">>)],
     [H("div", {}, <<Prose(<<Para>>)>>) EXCEPT !.attrs = WithAttr("role", Assistant)],
     [H("div", {}, <<Prose(<<>>)>>) EXCEPT !.attrs = WithAttr("role", Assistant)],
     [H("div", {}, <<Prose(<<Sticky, Space>>)>>) EXCEPT !.attrs = WithAttr("role", Assistant)],
     [H("article", {}, <<H("div", {"agent-turn"}, <<H("div", {"markdown"}, <<Table>>)>>)>>)
         EXCEPT !.attrs = WithAttr("testid", <<ConversationTurn, "2">>)],
     H("div", {"agent-turn"}, <<Para>>),
     Prose(<<H("ul", {}, <<H("li", {}, <<Word, H("ol", {}, <<H("li", {}, <<Word>>)>>)>>)>>)>>)}

IsPage(document) ==
    \E k \in 0..MaxTurns : \E turns \in [1..k -> Turns] : document = H("body", {}, turns)

BuildErrors == {JsError("Corrupted zip"), JsError("")}

InitExport ==
    /\ pc = "call"
    /\ fn = "handleExportDocx"
    /\ arg \in [mathMode : {"", "omml", "image"}]
    /\ ret = NoRet
    /\ IsPage(dom)
    /\ env = [built |-> <<>>, settled |-> Pending, downloads |-> <<>>, timers |-> 0]

\* The call runs to its first return or to the await.
CallHandleExportDocx ==
    /\ pc = "call"
    /\ \E start \in {exportStart(dom, arg)} :
        /\ ret' = Returned(start.ret)
        /\ env' = [env EXCEPT !.built = start.built]
        /\ dom' = start.dom
        /\ pc' = start.pc
    /\ UNCHANGED <<fn, arg>>

\* buildDocx resolves: the blob is downloaded and the handler reports success.
BuildDocxResolves ==
    /\ pc = "await"
    /\ \E blob \in {env.built[1]} :
       \E made \in {downloadBlob(dom, blob, "chatgpt-response-<timestamp>.docx")} :
        /\ dom' = made.dom
        /\ env' = [env EXCEPT !.settled = Resolved(blob),
                              !.downloads = Append(@, made.clicked),
                              !.timers = @ + 1]
    /\ ret' = Returned(Resolved(Success))
    /\ pc' = "done"
    /\ UNCHANGED <<fn, arg>>

\* buildDocx rejects: the catch block answers.
BuildDocxRejects ==
    /\ pc = "await"
    /\ \E e \in BuildErrors :
        /\ env' = [env EXCEPT !.settled = Rejected(e)]
        /\ ret' = Returned(Resolved(exportCaught(e)))
    /\ pc' = "done"
    /\ UNCHANGED <<fn, arg, dom>>

\* One second after the click the object URL is revoked and the <a> removed.
DownloadCleanup ==
    /\ env.timers > 0
    /\ dom' = [dom EXCEPT !.kids = SelectSeq(@, LAMBDA n : n # Anchor)]
    /\ env' = [env EXCEPT !.timers = @ - 1]
    /\ UNCHANGED <<fn, arg, ret, pc>>

NextExport ==
    CallHandleExportDocx \/ BuildDocxResolves \/ BuildDocxRejects \/ DownloadCleanup

SpecExport == InitExport /\ [][NextExport]_vars

\* ------------------------------------------------- content.js: claims

\* The document holds an element one of the three message selectors matches.
HasAssistantMessage ==
    \E all \in {PathsIn(dom, <<>>)} : \E n \in 1..Len(all) :
        IsAssistantRole(dom, all[n]) \/ IsAgentTurn(dom, all[n]) \/ IsMarkdownProse(dom, all[n])

\* The blocks of the last assistant message.
LastBlocks == extractContent(NodeAt(dom, getLastAssistantMessage(dom)))

Downloading == \E i \in 1..Len(dom.kids) : dom.kids[i] = Anchor

\* C15: the promise of handleExportDocx is never rejected.  Without an
\* assistant message, or with a message of zero blocks, it resolves with
\* success false and a non-empty error, and neither buildDocx nor a download
\* has happened; when buildDocx rejected it resolves with success false and
\* the error's message; it resolves with success true only when the blob
\* buildDocx made from the message's blocks was handed to one download.
C15_ExportFailsLoudly ==
    pc # "call" =>
        /\ ~ret.threw
        /\ ret.val.state # "rejected"
        /\ (~HasAssistantMessage \/ LastBlocks = <<>>) =>
            /\ pc = "done"
            /\ ret.val.state = "resolved"
            /\ ~ret.val.with.success
            /\ ret.val.with.error # ""
            /\ env.built = <<>> /\ env.downloads = <<>> /\ ~Downloading
        /\ env.settled.state = "rejected" =>
            ret.val = Resolved(Failure(env.settled.with.message))
        /\ (ret.val.state = "resolved" /\ ret.val.with.success) =>
            /\ Len(env.downloads) = 1
            /\ env.downloads[1].blob = env.built[1]
            /\ env.settled = Resolved(env.built[1])
            /\ env.built[1].blocks = LastBlocks

\* buildDocx rejected and the handler answered with the error's message.
C15_Witness ==
    /\ pc = "done"
    /\ env.settled = Rejected(JsError("Corrupted zip"))
    /\ ret.val = Resolved(Failure("Corrupted zip"))

\* Reached as well: the failure for a message of zero blocks, and a success.
EmptyAnswerSeen ==
    pc = "done" /\ HasAssistantMessage /\ ret.val = Resolved(Failure(EmptyAnswerMessage))
SuccessSeen ==
    pc = "done" /\ ret.val = Resolved(Success) /\ env.timers = 0 /\ ~Downloading

\* ------------------------------------------------- docx builder: the document part
\* (the builder's code stands in pdf-generator.js from line 286 on)

\* <n attr="v" ...>
OpenWith(n, v) == [k |-> "open", n |-> n, v |-> v]

\* buildTextRun
buildTextRun(text) ==
    IF text = <<>> THEN <<>>
    ELSE <<Open("w:r"), OpenWith("w:t", <<"preserve">>), Text(escapeXml(text)),
           Close("w:t"), Close("w:r")>>

\* A run with the run properties rPr.
StyledRun(rPr, text) ==
    <<Open("w:r"), Open("w:rPr")>> \o rPr
        \o <<Close("w:rPr"), OpenWith("w:t", <<"preserve">>), Text(escapeXml(text)),
             Close("w:t"), Close("w:r")>>

buildCodeRun(text) ==
    StyledRun(<<Empty("w:rFonts", <<"Consolas", "Consolas", "Consolas">>),
                Empty("w:sz", <<"20">>), Empty("w:szCs", <<"20">>),
                Empty("w:shd", <<"clear", "auto", "F5F5F5">>)>>, text)

buildLinkRun(text, href) ==
    StyledRun(<<Empty("w:rStyle", <<"Hyperlink">>), Empty("w:color", <<"0563C1">>),
                Empty("w:u", <<"single">>)>>, text)

buildVertAlignRun(text, align) ==
    StyledRun(<<Empty("w:vertAlign", <<align>>)>>, text)

RECURSIVE buildInlineRuns(_, _), buildFormattedRuns(_, _, _)
\* The switch over item.type; an item of type math is not among the items
\* the lists and paragraphs here carry.
buildInlineRuns(contentItems, ctx) ==
    LET run(item) ==
            CASE item.type = "text" -> buildTextRun(item.text)
              [] item.type = "bold" ->
                    buildFormattedRuns(item.content, [bold |-> TRUE, italic |-> FALSE], ctx)
              [] item.type = "italic" ->
                    buildFormattedRuns(item.content, [bold |-> FALSE, italic |-> TRUE], ctx)
              [] item.type = "code" -> buildCodeRun(item.text)
              [] item.type = "link" -> buildLinkRun(item.text, item.href)
              [] item.type = "superscript" -> buildVertAlignRun(item.text, "superscript")
              [] item.type = "subscript" -> buildVertAlignRun(item.text, "subscript")
    IN Concat([i \in 1..Len(contentItems) |-> run(contentItems[i])])

buildFormattedRuns(contentItems, format, ctx) ==
    LET run(item) ==
            IF item.type = "text"
            THEN StyledRun((IF format.bold THEN <<Empty("w:b", <<>>)>> ELSE <<>>)
                               \o (IF format.italic THEN <<Empty("w:i", <<>>)>> ELSE <<>>),
                           item.text)
            ELSE IF item.type = "code" THEN buildCodeRun(item.text)
            ELSE IF item.type = "bold"
            THEN buildFormattedRuns(item.content, [format EXCEPT !.bold = TRUE], ctx)
            ELSE IF item.type = "italic"
            THEN buildFormattedRuns(item.content, [format EXCEPT !.italic = TRUE], ctx)
            ELSE buildInlineRuns(<<item>>, ctx)
    IN Concat([i \in 1..Len(contentItems) |-> run(contentItems[i])])

buildHeading(block, ctx) ==
    LET level == IF block.level < 6 THEN block.level ELSE 6
    IN <<Open("w:p"), Open("w:pPr"), Empty("w:pStyle", <<"Heading", level>>),
         Close("w:pPr")>>
           \o buildInlineRuns(block.content, ctx) \o <<Close("w:p")>>

buildParagraph(block, ctx) ==
    LET runs == buildInlineRuns(block.content, ctx)
    IN IF runs = <<>> THEN <<>> ELSE <<Open("w:p")>> \o runs \o <<Close("w:p")>>

\* The paragraph of one list item.
ListItemParagraph(level, numId, runs) ==
    <<Open("w:p"), Open("w:pPr"), Empty("w:pStyle", <<"ListParagraph">>),
      Open("w:numPr"), Empty("w:ilvl", <<level>>), Empty("w:numId", <<numId>>),
      Close("w:numPr"), Close("w:pPr")>> \o runs \o <<Close("w:p")>>

HasNestedList(item) == "nestedList" \in DOMAIN item

RECURSIVE buildListNestedBullets(_, _, _)
\* buildList with the decimal id kept for the outermost list only.
buildListNestedBullets(block, ctx, level) ==
    LET numId == IF block.ordered /\ level = 0 THEN 2 ELSE 1
        one(item) ==
            ListItemParagraph(level, numId, buildInlineRuns(item.content, ctx))
                \o (IF HasNestedList(item)
                    THEN buildListNestedBullets(item.nestedList, ctx, level + 1)
                    ELSE <<>>)
    IN Concat([i \in 1..Len(block.items) |-> one(block.items[i])])

RECURSIVE buildList(_, _, _)
buildList(block, ctx, level) ==
    LET numId == IF block.ordered THEN 2 ELSE 1
        one(item) ==
            ListItemParagraph(level, numId, buildInlineRuns(item.content, ctx))
                \o (IF HasNestedList(item)
                    THEN buildList(item.nestedList, ctx, level + 1)
                    ELSE <<>>)
    IN Concat([i \in 1..Len(block.items) |-> one(block.items[i])])

buildHorizontalRule ==
    <<Open("w:p"), Open("w:pPr"), Open("w:pBdr"),
      Empty("w:bottom", <<"single", "6", "1", "CCCCCC">>), Close("w:pBdr"),
      Empty("w:spacing", <<"120">>), Close("w:pPr"), Close("w:p")>>

\* The switch over block.type, for the block types built here; a type outside
\* the block types gives ''.
BlockTypes ==
    {"heading", "paragraph", "list", "table", "codeBlock", "math", "blockquote", "hr"}
buildBlock(block, ctx) ==
    CASE block.type = "heading" -> buildHeading(block, ctx)
      [] block.type = "paragraph" -> buildParagraph(block, ctx)
      [] block.type = "list" -> buildList(block, ctx, 0)
      [] block.type = "hr" -> buildHorizontalRule
      [] block.type \notin BlockTypes -> <<>>

generateDocumentXml(bodyContent) ==
    <<Open("w:document"), Open("w:body")>> \o bodyContent
        \o <<Open("w:sectPr"), Empty("w:pgSz", <<"12240", "15840">>),
             Empty("w:pgMar", <<"1440", "1440", "1440", "1440", "720", "720", "0">>),
             Empty("w:cols", <<"720">>), Close("w:sectPr"),
             Close("w:body"), Close("w:document")>>

\* The parts buildDocx puts into the archive before it generates the blob;
\* of their contents the model keeps the document part.
PartNames ==
    {"[Content_Types].xml", "_rels/.rels", "word/document.xml", "word/styles.xml",
     "word/settings.xml", "word/fontTable.xml", "word/_rels/document.xml.rels",
     "docProps/app.xml", "docProps/core.xml"}

buildDocxParts(blocks, options) ==
    LET ctx == [mathMode |-> options.mathMode]
        bodyContent == Concat([i \in 1..Len(blocks) |-> buildBlock(blocks[i], ctx)])
    IN [names |-> PartNames, document |-> generateDocumentXml(bodyContent)]

\* ------------------------------------------------- docx builder: calls

\* The items of all lists of a block together number at most MaxItems.
MaxItems == 3

TextItem(c) == [type |-> "text", text |-> <<c>>]
ItemContents ==
    {<<TextItem("a")>>,
     <<[type |-> "bold", content |-> <<TextItem("<")>>], [type |-> "code", text |-> <<"c">>]>>}

RECURSIVE ItemSeqs(_)
\* The item sequences of exactly n items, nested ones counted: the first item
\* with the j - 1 items of its nested list, then the rest.
ItemSeqs(n) ==
    IF n = 0 THEN {<<>>}
    ELSE UNION {
            {<<first>> \o rest :
                first \in (IF j = 1
                           THEN {[content |-> c, text |-> <<>>] : c \in ItemContents}
                           ELSE {})
                          \cup {[content |-> c, text |-> <<>>,
                                 nestedList |-> [ordered |-> o, items |-> inner]] :
                                    c \in ItemContents, o \in BOOLEAN,
                                    inner \in ItemSeqs(j - 1)},
                rest \in ItemSeqs(n - j)} : j \in 1..n}

ParagraphBlock == [type |-> "paragraph", content |-> <<TextItem("p")>>, text |-> <<"p">>]

InitDocx ==
    /\ pc = "call"
    /\ fn = "buildDocx"
    /\ \E n \in 0..MaxItems : \E items \in ItemSeqs(n) : \E ordered \in BOOLEAN :
       \E before \in {<<>>, <<ParagraphBlock>>} :
           arg = [blocks |-> before \o <<[type |-> "list", ordered |-> ordered,
                                            items |-> items]>>,
                  options |-> [title |-> "ChatGPT Response", mathMode |-> "omml"]]
    /\ ret = NoRet
    /\ dom = NoDom
    /\ env = [zip |-> [names |-> {}, document |-> <<>>]]

\* buildDocx up to its await: the parts are put into the archive.
CallBuildDocx ==
    /\ pc = "call"
    /\ fn = "buildDocx"
    /\ env' = [env EXCEPT !.zip = buildDocxParts(arg.blocks, arg.options)]
    /\ ret' = Returned(Pending)
    /\ pc' = "await"
    /\ UNCHANGED <<fn, arg, dom>>

\* zip.generateAsync resolves: buildDocx returns the blob.
GenerateAsyncResolves ==
    /\ pc = "await"
    /\ fn = "buildDocx"
    /\ ret' = Returned(Resolved(env.zip))
    /\ pc' = "done"
    /\ UNCHANGED <<fn, arg, dom, env>>

\* zip.generateAsync rejects: so does buildDocx.
GenerateAsyncRejects ==
    /\ pc = "await"
    /\ fn = "buildDocx"
    /\ ret' = Returned(Rejected(JsError("Corrupted zip")))
    /\ pc' = "done"
    /\ UNCHANGED <<fn, arg, dom, env>>

NextDocx == CallBuildDocx \/ GenerateAsyncResolves \/ GenerateAsyncRejects

SpecDocx == InitDocx /\ [][NextDocx]_vars

\* ------------------------------------------------- docx builder: claims

DocxBuilt == pc = "done" /\ fn = "buildDocx" /\ ret.val.state = "resolved"

\* The values of the numbering references of a document part, in its order.
NumIdsIn(document) ==
    LET refs == SelectSeq(document, LAMBDA tok : tok.k = "empty" /\ tok.n = "w:numId")
    IN [i \in 1..Len(refs) |-> refs[i].v[1]]

RECURSIVE ItemNumIds(_)
\* For the items of a list in their order, nested lists in place: 2 where the
\* list that holds the item is ordered, 1 where it is not.
ItemNumIds(list) ==
    Concat([i \in 1..Len(list.items) |->
                <<IF list.ordered THEN 2 ELSE 1>>
                    \o (IF HasNestedList(list.items[i])
                        THEN ItemNumIds(list.items[i].nestedList) ELSE <<>>)])

ListBlocksOf(blocks) == SelectSeq(blocks, LAMBDA b : b.type = "list")

\* C19: in the document part of the built archive the numbering references
\* are, item by item, 1 for the items of an unordered list and 2 for the items
\* of an ordered list, nested lists by their own flag; every reference stands
\* in a list paragraph of its own.
C19_NumIdFollowsOrderedFlag ==
    DocxBuilt =>
        \E document \in {ret.val.with.document} :
            /\ NumIdsIn(document)
                = Concat([i \in 1..Len(ListBlocksOf(arg.blocks)) |->
                             ItemNumIds(ListBlocksOf(arg.blocks)[i])])
            /\ \A i \in 1..Len(document) :
                (document[i].k = "empty" /\ document[i].n = "w:numId") =>
                    /\ document[i - 3] = Empty("w:pStyle", <<"ListParagraph">>)
                    /\ document[i - 5] = Open("w:p")

\* An ordered list inside an item of an unordered list, followed by another
\* item of the unordered list.
C19_Witness ==
    /\ DocxBuilt
    /\ NumIdsIn(ret.val.with.document) = <<1, 2, 1>>

\* ------------------------------------------------- LaTeX parser: script bases

LatexDone == pc = "done" /\ fn = "latexToOmml" /\ ~ret.threw

\* The string holds only literals, spaces and script signs: one group, in
\* which the argument of a script sign is the one character after it.
ScriptSigns == {"^", "_"}
IsFlat(latex) ==
    \A i \in 1..Len(latex) : latex[i] \notin {"{", "}", "\\"}

RECURSIVE ScriptSites(_, _, _)
\* The script signs of a flat string that stand as operators, in order, each
\* with where the group's output restarted before it: at the start of the
\* string or behind the previous script construct.  pos counts from 0.
ScriptSites(latex, pos, from) ==
    IF pos >= Len(latex) THEN <<>>
    ELSE IF latex[pos + 1] \notin ScriptSigns THEN ScriptSites(latex, pos + 1, from)
    ELSE LET afterArg == IF pos + 2 <= Len(latex) THEN pos + 2 ELSE Len(latex)
             both == /\ latex[pos + 1] = "_"
                     /\ afterArg < Len(latex)
                     /\ latex[afterArg + 1] = "^"
             next == IF ~both THEN afterArg
                     ELSE IF afterArg + 2 <= Len(latex) THEN afterArg + 2 ELSE Len(latex)
         IN <<[at |-> pos, from |-> from]>> \o ScriptSites(latex, next, next)

RECURSIVE MatchingClose(_, _, _)
\* The index of the end tag that closes the start tag at i - 1, depth tags deep.
MatchingClose(out, i, depth) ==
    IF out[i].k = "close" /\ depth = 1 THEN i
    ELSE MatchingClose(out, i + 1,
                       IF out[i].k = "open" THEN depth + 1
                       ELSE IF out[i].k = "close" THEN depth - 1
                       ELSE depth)

ScriptTags == {"m:sSup", "m:sSub", "m:sSubSup"}

RECURSIVE TopBases(_, _)
\* The bases (the content of m:e) of the script constructs of out that stand
\* in no other script construct, in order.
TopBases(out, i) ==
    IF i > Len(out) THEN <<>>
    ELSE IF out[i].k = "open" /\ out[i].n \in ScriptTags
    THEN LET e == CHOOSE j \in (i + 1)..Len(out) :
                      /\ out[j] = Open("m:e")
                      /\ \A h \in (i + 1)..(j - 1) : out[h] # Open("m:e")
         IN <<SubSeq(out, e + 1, MatchingClose(out, e + 1, 1) - 1)>>
                \o TopBases(out, MatchingClose(out, i + 1, 1) + 1)
    ELSE TopBases(out, i + 1)

\* The runs of the literals of a stretch without script signs.
RunsOf(stretch) ==
    Concat([i \in 1..Len(stretch) |->
                IF stretch[i] = " " THEN <<>> ELSE makeRun(<<stretch[i]>>)])

TwoRunBaseSeen ==
    LatexDone /\ arg.latex = <<"<", "<", "^">>
        /\ TopBases(ret.val, 1) = <<makeRun(<<"<">>) \o makeRun(<<"<">>)>>

\* ------------------------------------------------- mathmlToOmml: mover

\* The over-tokens: every character of the accent tables alone and within
\* white space, characters of neither table, two characters, and a name that
\* Object.prototype defines.
OverTexts ==
    {<<c>> : c \in KNOWN_ACCENTS \cup ACCENT_MAP_KEYS \cup {"x", "<", "U+2211"}}
        \cup {<<" ", c, "\n">> : c \in KNOWN_ACCENTS}
        \cup {<<"^", "^">>, <<" ">>}
        \cup ObjectPrototypeKeys

AccentAttrs == {Null, <<"t", "r", "u", "e">>, <<"f", "a", "l", "s", "e">>}

\* A document with a mover element under the math root: without children,
\* with the base only, with base and over-token, white space between them.
IsMoverInput(a) ==
    \E accent \in AccentAttrs : \E display \in {Null, Block} :
    \E kids \in {<<>>, <<Mi(<<"x">>)>>}
                  \cup {<<Mi(<<"x">>), Mo(t)>> : t \in OverTexts}
                  \cup {<<Txt(<<" ">>), Mi(<<"<">>), Txt(<<" ">>), Mi(t)>> : t \in OverTexts} :
        a = WellFormed(El("math", WithAttr("display", display),
                          <<El("mover", WithAttr("accent", accent), kids)>>))

InitOver ==
    /\ pc = "call"
    /\ fn = "mathmlToOmml"
    /\ IsMoverInput(arg)
    /\ ret = NoRet
    /\ dom = NoDom
    /\ env = NoEnv

SpecOver == InitOver /\ [][CallMathmlToOmml]_vars

\* The mover element of the document, its over-token's trimmed text, and the
\* fragment between the m:oMath tags.
Mover == arg.root.kids[1]
OverText ==
    LET els == SelectSeq(Mover.kids, IsElement)
    IN IF Len(els) >= 2 THEN Trim(textContent(els[2])) ELSE <<>>
Inner(omml) ==
    IF omml[1] = Open("m:oMathPara") THEN SubSeq(omml, 3, Len(omml) - 2)
    ELSE SubSeq(omml, 2, Len(omml) - 1)

\* The accent set of the source and the combining form of its spacing forms.
IsKnownAccent(text) == Len(text) = 1 /\ text[1] \in KNOWN_ACCENTS
SpacingForms ==
    {"^", "~", "U+00AF", "U+2192", "U+02D9", "U+00A8", "U+02C6", "U+02DC", "U+203E"}
CombiningForm(c) ==
    CASE c \in {"^", "U+02C6"} -> "U+0302"
      [] c \in {"~", "U+02DC"} -> "U+0303"
      [] c \in {"U+00AF", "U+203E"} -> "U+0304"
      [] c = "U+2192" -> "U+20D7"
      [] c = "U+02D9" -> "U+0307"
      [] c = "U+00A8" -> "U+0308"

AccentAsked == Mover.attrs.accent = <<"t", "r", "u", "e">> \/ IsKnownAccent(OverText)

\* The fragment is an accent construct / an upper-limit construct.
IsAcc(omml) == omml[1] = Open("m:acc") /\ omml[Len(omml)] = Close("m:acc")
IsLimUpp(omml) == omml[1] = Open("m:limUpp") /\ omml[Len(omml)] = Close("m:limUpp")

MoverDone == pc = "done" /\ fn = "mathmlToOmml" /\ arg.wellFormed /\ Mover.tag = "mover"

\* C23: a mover element is converted, to m:acc when accent="true" is present
\* or the over-token's trimmed text is a known accent and to m:limUpp
\* otherwise; the mark of a spacing accent form is its combining form.
C23_MoverAccentIffAsked ==
    MoverDone =>
        /\ ~ret.threw
        /\ IF AccentAsked THEN IsAcc(Inner(ret.val)) ELSE IsLimUpp(Inner(ret.val))
        /\ (IsKnownAccent(OverText) /\ OverText[1] \in SpacingForms) =>
               Inner(ret.val)[3] = Empty("m:chr", <<CombiningForm(OverText[1])>>)

\* The same of every call that returns.
ReturnedMoverAccentIffAsked ==
    (MoverDone /\ ~ret.threw) =>
        /\ IF AccentAsked THEN IsAcc(Inner(ret.val)) ELSE IsLimUpp(Inner(ret.val))
        /\ (IsKnownAccent(OverText) /\ OverText[1] \in SpacingForms) =>
               Inner(ret.val)[3] = Empty("m:chr", <<CombiningForm(OverText[1])>>)
MoverThrowSeen ==
    MoverDone /\ ret.threw /\ OverText \in ObjectPrototypeKeys
        /\ Mover.attrs.accent = <<"t", "r", "u", "e">>

\* ------------------------------------------- dom-extractor: the block list

\* The element children the message was given under its content root.
RootChildren == SelectSeq(arg.before \o <<arg.subject>> \o arg.after, IsElement)

\* C24: the blocks are those of the direct element children of the content
\* root, at most one of each child, in the children's order; a child without a
\* block is one parseElement skips, and there are never more blocks than
\* children.
C24_BlocksFollowDirectChildren ==
    ContentDone =>
        \E kids \in {RootChildren} : \E blocks \in {ret.val} :
            /\ Len(blocks) <= Len(kids)
            /\ \E at \in [1..Len(blocks) -> 1..Len(kids)] :
                   /\ \A k \in 1..Len(blocks) : blocks[k] = parseElement(kids[at[k]])
                   /\ \A k \in 1..(Len(blocks) - 1) : at[k] < at[k + 1]
                   /\ \A i \in 1..Len(kids) :
                          (\A k \in 1..Len(blocks) : at[k] # i)
                              => parseElement(kids[i]) = NullBlock

\* A child that is skipped stands between two paragraphs, and a child whose own
\* child is a paragraph gives one block.
C24_Witness ==
    /\ ContentDone
    /\ Len(RootChildren) = 3
    /\ \/ arg.subject.tag = "section" /\ Len(ret.val) = 2
       \/ /\ \E i \in 1..Len(arg.subject.kids) : arg.subject.kids[i].tag = "p"
          /\ Len(ret.val) = 3

\* The block types of the intermediate document model.
IdmBlockTypes ==
    {"heading", "paragraph", "list", "table", "codeBlock", "blockquote", "hr", "math"}

\* C25: every block extractContent returns has one of the eight block types of
\* the intermediate document model.
C25_BlockTypesClosed ==
    ContentDone => \A i \in 1..Len(ret.val) : ret.val[i].type \in IdmBlockTypes

\* Only a details element gives a block of another type, and its type is details.
OnlyDetailsOutsideModel ==
    ContentDone =>
        \A i \in 1..Len(ret.val) :
            ret.val[i].type \notin IdmBlockTypes
                => ret.val[i].type = "details" /\ arg.subject.tag = "details"

\* ------------------------------------------------- LaTeX parser: the cursor

\* The cursor positions of the string: 0 .. length.
Cursors(latex) == 0..Len(latex)
Occurs(latex, ch) == \E i \in 1..Len(latex) : latex[i] = ch

\* C28: from every cursor position of the input, parse, parseGroup,
\* readCommand and handleCommand return with the cursor not before the
\* position they were entered at and not after the end of the input; an
\* iteration of parse's loop that does not stop at a closing brace, a
\* parseGroup before the end and a readCommand move it forward.
C28_CursorAdvancesWithinInput ==
    LatexDone =>
        \E latex \in {arg.latex} :
            \A p \in Cursors(latex) :
                /\ parse(latex, p).pos \in p..Len(latex)
                /\ parseGroup(latex, p).pos \in p..Len(latex)
                /\ p < Len(latex) =>
                       /\ parseGroup(latex, p).pos > p
                       /\ At(latex, p) # "}" => parse(latex, p).pos > p
                       /\ At(latex, p) = "\\" =>
                              \E c \in {readCommand(latex, p)} :
                                  /\ c.pos \in (p + 1)..Len(latex)
                                  /\ handleCommand(latex, c.pos, c.cmd).pos
                                         \in c.pos..Len(latex)

\* A string with a command, a group and a script sign, read to its end.
C28_Witness ==
    /\ LatexDone
    /\ Occurs(arg.latex, "\\") /\ Occurs(arg.latex, "{")
    /\ Occurs(arg.latex, "^") \/ Occurs(arg.latex, "_")
    /\ parse(arg.latex, 0).pos = Len(arg.latex)

\* The runs of the literal character in the fragment.
LiteralRuns(omml, ch) == CountOf(omml, Text(escapeXml(<<ch>>)))
Occurrences(latex, ch) == Cardinality({i \in 1..Len(latex) : latex[i] = ch})

\* C29: when the top-level parse returns the cursor is at the end of the
\* string, and every literal character of the input has its run in the output.
C29_WholeInputConsumed ==
    LatexDone =>
        /\ parse(arg.latex, 0).pos = Len(arg.latex)
        /\ LiteralRuns(ret.val, "<") = Occurrences(arg.latex, "<")

\* The top-level parse returns before the end only at a closing brace, and the
\* literal characters before the cursor have their runs.
StopsOnlyAtCloseBrace ==
    LatexDone =>
        \E pos \in {parse(arg.latex, 0).pos} :
            /\ pos = Len(arg.latex) \/ At(arg.latex, pos) = "}"
            /\ LiteralRuns(ret.val, "<") = Occurrences(SubSeq(arg.latex, 1, pos), "<")
LiteralLostSeen ==
    /\ LatexDone
    /\ parse(arg.latex, 0).pos < Len(arg.latex)
    /\ LiteralRuns(ret.val, "<") < Occurrences(arg.latex, "<")

\* ------------------------------------------------- content.js: the buttons

BUTTON_CONTAINER_CLASS == "cgpt-word-copier-buttons"
\* The value of the data-word-copier-processed attribute (attrs.processed).
PROCESSED == <<"true">>

\* createActionButton: the icon and the label in a button.
createActionButton(text) ==
    H("button", {"cgpt-wc-btn"}, <<H("svg", {}, <<>>), H("span", {}, <<Txt(<<text>>)>>)>>)

\* The container addButtonsToMessage builds (the first label is Russian in
\* the source: 'Копировать для Word').
ButtonContainer ==
    H("div", {BUTTON_CONTAINER_CLASS},
      <<createActionButton("Kopirovat dlya Word"), createActionButton("DOCX"),
        createActionButton("PDF")>>)

\* parent.insertBefore(node, the child at position i): the children from i on
\* move one place to the right.
insertBefore(document, parent, i, node) ==
    LET el == NodeAt(document, parent)
    IN PutAt(document, parent,
             [el EXCEPT !.kids = SubSeq(@, 1, i - 1) \o <<node>> \o SubSeq(@, i, Len(@))])

\* addButtonsToMessage for the message at path at: the container goes before
\* the content element, or to the top of a message that is its own content.
addButtonsToMessage(document, at) ==
    LET contentEl == markdownHandle(Heap(document), Handle("live", at)).path
    IN IF contentEl = at
       THEN insertBefore(document, at, 1, ButtonContainer)
       ELSE insertBefore(document, SubSeq(contentEl, 1, Len(contentEl) - 1),
                         contentEl[Len(contentEl)], ButtonContainer)

RECURSIVE processEach(_, _, _)
\* The loop of processMessages over the first i messages.  The source goes
\* through the elements in document order; here the last comes first, so that
\* the paths of the messages still to come stay those of the elements found.
processEach(document, messages, i) ==
    IF i = 0 THEN document
    ELSE LET msg == NodeAt(document, messages[i])
         IN IF msg.attrs.processed # Null
            THEN processEach(document, messages, i - 1)
            ELSE processEach(
                     addButtonsToMessage(
                         PutAt(document, messages[i],
                               [msg EXCEPT !.attrs.processed = PROCESSED]),
                         messages[i]),
                     messages, i - 1)

RECURSIVE addToEach(_, _, _)
\* processMessages without the test of the attribute.
addToEach(document, messages, i) ==
    IF i = 0 THEN document
    ELSE addToEach(
             addButtonsToMessage(
                 PutAt(document, messages[i],
                       [NodeAt(document, messages[i]) EXCEPT !.attrs.processed = PROCESSED]),
                 messages[i]),
             messages, i - 1)
processMessagesUnmarked(document) ==
    LET messages == getAssistantMessages(document)
    IN addToEach(document, messages, Len(messages))

processMessages(document) ==
    LET messages == getAssistantMessages(document)
    IN processEach(document, messages, Len(messages))

RECURSIVE removeButtons(_)
\* removeButtons: every container leaves the page and every element loses the
\* attribute.
removeButtons(node) ==
    LET kept == SelectSeq(node.kids, LAMBDA n : BUTTON_CONTAINER_CLASS \notin n.cls)
    IN [node EXCEPT !.attrs.processed = Null,
                    !.kids = [i \in 1..Len(kept) |-> removeButtons(kept[i])]]

\* The button containers below a node.
Containers(node) ==
    Len(SelectSeq(Descendants(node), LAMBDA n : BUTTON_CONTAINER_CLASS \in n.cls))

\* The records the observer holds: childList records with added nodes, with
\* removed nodes only, or none.  A change reaches the records of an observer
\* that exists; records with added nodes are what the callback looks for.
NoRecords == "none"
Additions == "additions"
Removals == "removals"
Added(observers, happened, pending) ==
    IF observers > 0 /\ happened THEN Additions ELSE pending
Removed(observers, happened, pending) ==
    IF observers > 0 /\ happened /\ pending = NoRecords THEN Removals ELSE pending

\* startObserver: if (observer) return; observer = new MutationObserver(...)
startObserver(observers) == IF observers > 0 THEN observers ELSE observers + 1

\* injectButtons on the script's state e: processMessages, then startObserver.
injectButtons(document, e) ==
    LET after == processMessages(document)
    IN [dom |-> after,
        env |-> [e EXCEPT !.records = Added(e.observers, after # document, @),
                          !.observers = startObserver(@)]]

\* settings = { ...settings, ...result }
Merged(settings, result) ==
    [f \in DOMAIN settings |-> IF f \in DOMAIN result THEN result[f] ELSE settings[f]]

\* ------------------------------------------------- content.js: the script

\* let settings = { showButtons: true, mathMode: 'omml', darkThemeDocx: false }
DefaultSettings == [showButtons |-> TRUE, mathMode |-> "omml", darkThemeDocx |-> FALSE]

\* A settings object as storage or a message carries it: some of the keys, or
\* none at all (given is FALSE where the source has undefined).
NoSettings == [given |-> FALSE]
SettingsObjects == {[given |-> TRUE, showButtons |-> b] : b \in BOOLEAN}

\* What storageGet resolves with: an object, or null.
StorageResults == SettingsObjects \cup {NoSettings}

Message(type, settings) == [type |-> type, settings |-> settings]
KnownTypes == {"copyForWord", "exportDocx", "exportPdf", "settingsChanged"}
Messages ==
    {Message(t, NoSettings) : t \in KnownTypes \cup {"ping", "undefined"}}
        \cup {Message("settingsChanged", r) : r \in SettingsObjects}
        \cup {Message("exportDocx", [given |-> TRUE, mathMode |-> "image"])}
SettingsMessages == {m \in Messages : m.type = "settingsChanged"}
NoMessage == Message("#none", NoSettings)

UnknownTypeMessage == "Unknown message type"
PopupBlockedMessage == "Popup blocked - please allow popups"
CopyFailedMessage == "execCommand failed"

\* html is empty or white space: !html || html.trim() === ''
IsBlankHtml(html) ==
    \A i \in 1..Len(html) : html[i].k = "text" /\ Trim(html[i].v) = <<>>

\* What stands selected on the page: nothing (or something outside the
\* messages), a piece of a message, white space of a message.
Selections == {"none", "fragment", "blank"}

\* What a handler finds around it: the selection (copyForWord asks for it)
\* and whether window.open gives a window (handleExportPdf asks for one).
Surroundings(message) ==
    IF message.type = "copyForWord"
    THEN {[selected |-> s, popup |-> TRUE] : s \in Selections}
    ELSE IF message.type = "exportPdf"
    THEN {[selected |-> "none", popup |-> b] : b \in BOOLEAN}
    ELSE {[selected |-> "none", popup |-> TRUE]}

\* A handler up to its first await or return: the promise, the page after it,
\* what it waits for, and the blob buildDocx was called for.
Started(promise, document, waiting, built) ==
    [promise |-> promise, dom |-> document, waiting |-> waiting, built |-> built]

\* getCleanHtmlWithMathML(lastMessage): the HTML of the clone, and the
\* message as the call leaves it.
cleanedOf(made) ==
    withPlainHeaders(withoutKatexHtml(withMathML(made.heap, made.node), made.node),
                     made.node)
htmlOf(made, cleaned) ==
    [html |-> innerHTML(Deref(cleaned, made.node)), live |-> cleaned.live]
cleanHtmlOf(made) == htmlOf(made, cleanedOf(made))
getCleanHtmlWithMathML(lastMessage) ==
    cleanHtmlOf(cloneNode(Heap(lastMessage), markdownHandle(Heap(lastMessage), LiveRoot)))

\* copyForWord from the HTML on: the answer for an empty one, or
\* await copyRichHtml(...).
copyHtml(document, at, clean) ==
    IF IsBlankHtml(clean.html)
    THEN Started(Resolved(Failure(EmptyAnswerMessage)), PutAt(document, at, clean.live),
                 "none", <<>>)
    ELSE Started(Pending, PutAt(document, at, clean.live), "clipboard", <<>>)

\* copyForWord up to await copyRichHtml(...).
copyAt(document, selected, at) ==
    IF selected = "fragment"
    THEN Started(Pending, document, "clipboard", <<>>)
    ELSE IF selected = "blank"
    THEN Started(Resolved(Failure(EmptyAnswerMessage)), document, "none", <<>>)
    ELSE IF at = NoPath
    THEN Started(Resolved(Failure(NoAnswersMessage)), document, "none", <<>>)
    ELSE copyHtml(document, at, getCleanHtmlWithMathML(NodeAt(document, at)))
copyForWord(document, selected) ==
    copyAt(document, selected, getLastAssistantMessage(document))

\* handleExportDocx(message.settings || settings) up to await buildDocx(...).
startedOf(start) ==
    Started(start.ret, start.dom,
            IF start.pc = "await" THEN "buildDocx" ELSE "none", start.built)
handleExportDocx(document, exportSettings) ==
    startedOf(exportStart(document,
                          [mathMode |-> IF "mathMode" \in DOMAIN exportSettings
                                        THEN exportSettings.mathMode ELSE ""]))

\* handleExportPdf: generatePdfViaPrint throws when window.open gives null.
handleExportPdf(document, popup) ==
    IF getLastAssistantMessage(document) = NoPath
    THEN Started(Resolved(Failure(NoAnswersMessage)), document, "none", <<>>)
    ELSE IF ~popup
    THEN Started(Resolved(Failure(PopupBlockedMessage)), document, "none", <<>>)
    ELSE Started(Resolved(Success), document, "none", <<>>)

\* The default arm that throws instead of answering.
unknownTypeThrows(document) ==
    Started(Rejected(JsError(UnknownTypeMessage)), document, "none", <<>>)

\* default: return { success: false, error: 'Unknown message type' }
unknownType(document) ==
    Started(Resolved(Failure(UnknownTypeMessage)), document, "none", <<>>)

\* A handler's start beside the script's state: what it took off the page is
\* in the observer's records.
Beside(document, e, started) ==
    [started |-> started,
     env |-> [e EXCEPT !.records = Removed(e.observers, started.dom # document, @)]]
Injected(injected) ==
    [started |-> Started(Resolved(Success), injected.dom, "none", <<>>),
     env |-> injected.env]

\* The settingsChanged arm on the script's state e.
settingsChanged(document, e, message) ==
    IF Merged(e.settings, message.settings).showButtons
    THEN Injected(injectButtons(document,
                      [e EXCEPT !.settings = Merged(@, message.settings)]))
    ELSE [started |-> Started(Resolved(Success), removeButtons(document), "none", <<>>),
          env |-> [e EXCEPT !.settings = Merged(@, message.settings),
                            !.records = Removed(e.observers, Containers(document) > 0, @)]]

\* handleMessage up to its first await or return.
handleMessage(document, e, message, selected, popup) ==
    CASE message.type = "copyForWord" ->
             Beside(document, e, copyForWord(document, selected))
      [] message.type = "exportDocx" ->
             Beside(document, e,
                    handleExportDocx(document,
                        IF message.settings.given THEN message.settings ELSE e.settings))
      [] message.type = "exportPdf" ->
             [started |-> handleExportPdf(document, popup), env |-> e]
      [] message.type = "settingsChanged" -> settingsChanged(document, e, message)
      [] OTHER -> [started |-> unknownType(document), env |-> e]

\* Downloads whose clean-up timer may be pending at one time.
MaxPending == 1

\* The turns of the pages the script runs on.
ChatTurns ==
    {[H("div", {}, <<Word>>) EXCEPT !.attrs = WithAttr("role", <<"user">>)],
     [H("div", {}, <<Prose(<<Para>>)>>) EXCEPT !.attrs = WithAttr("role", Assistant)],
     [H("article", {}, <<H("div", {"agent-turn"}, <<H("div", {"markdown"}, <<Para>>)>>)>>)
         EXCEPT !.attrs = WithAttr("testid", <<ConversationTurn, "2">>)]}
TurnsOf(document) == SelectSeq(document.kids, LAMBDA n : n # Anchor)

\* The script has run to its end: settings hold the defaults, storageGet is
\* pending, the listener stands, and the initial set-up waits for
\* DOMContentLoaded or for its timer.
InitContent ==
    /\ pc = "idle"
    /\ fn = "handleMessage"
    /\ arg = NoMessage
    /\ ret = Returned(Pending)
    /\ \E k \in 0..MaxTurns : \E turns \in [1..k -> ChatTurns] : dom = H("body", {}, turns)
    /\ \E setup \in {"loading", "timer"} :
           env = [settings |-> DefaultSettings, storage |-> "pending",
                  setup |-> setup, observers |-> 0, records |-> NoRecords,
                  debounce |-> FALSE, waiting |-> "none", built |-> <<>>,
                  timers |-> 0, answers |-> 0]

\* storageGet(...).then: the settings are merged and, with showButtons, the
\* buttons injected; null leaves everything as it is.
StorageGetResolves ==
    /\ env.storage = "pending"
    /\ \E result \in StorageResults :
       \E loaded \in {[env EXCEPT !.storage = "done", !.settings = Merged(@, result)]} :
           IF result.given /\ loaded.settings.showButtons
           THEN \E injected \in {injectButtons(dom, loaded)} :
                    dom' = injected.dom /\ env' = injected.env
           ELSE dom' = dom /\ env' = loaded
    /\ UNCHANGED <<fn, arg, ret, pc>>

\* .catch(() => {}): storage is not available.
StorageGetRejects ==
    /\ env.storage = "pending"
    /\ env' = [env EXCEPT !.storage = "done"]
    /\ UNCHANGED <<fn, arg, ret, pc, dom>>

\* DOMContentLoaded: setTimeout(injectButtons, 1000)
DomContentLoaded ==
    /\ env.setup = "loading"
    /\ env' = [env EXCEPT !.setup = "timer"]
    /\ UNCHANGED <<fn, arg, ret, pc, dom>>

\* The timer of the initial set-up calls injectButtons.
SetupTimerFires ==
    /\ env.setup = "timer"
    /\ \E injected \in {injectButtons(dom, [env EXCEPT !.setup = "done"])} :
           dom' = injected.dom /\ env' = injected.env
    /\ UNCHANGED <<fn, arg, ret, pc>>

\* The observer's callback: with added nodes among the records the debounce
\* timer is set anew.
ObserverCallback ==
    /\ env.records # NoRecords
    /\ env' = [env EXCEPT !.records = NoRecords,
                          !.debounce = @ \/ env.records = Additions]
    /\ UNCHANGED <<fn, arg, ret, pc, dom>>

\* setTimeout(processMessages, 500) fires.
DebounceFires ==
    /\ env.debounce
    /\ \E after \in {processMessages(dom)} :
           /\ dom' = after
           /\ env' = [env EXCEPT !.debounce = FALSE,
                                 !.records = Added(env.observers, after # dom, @)]
    /\ UNCHANGED <<fn, arg, ret, pc>>

\* The page shows one more turn.
PageAddsTurn ==
    /\ Len(TurnsOf(dom)) < MaxTurns
    /\ \E turn \in ChatTurns :
           /\ dom' = [dom EXCEPT !.kids = Append(@, turn)]
           /\ env' = [env EXCEPT !.records = Added(env.observers, TRUE, @)]
    /\ UNCHANGED <<fn, arg, ret, pc>>

\* The listener is handed one of the messages:
\* handleMessage(message).then(sendResponse).
DeliverMessage(messages) ==
    /\ pc = "idle"
    /\ \E message \in messages : \E with \in Surroundings(message) :
       \E h \in {handleMessage(dom, env, message, with.selected, with.popup)} :
           /\ message.type = "exportDocx" => env.timers < MaxPending
           /\ arg' = message
           /\ ret' = Returned(h.started.promise)
           /\ dom' = h.started.dom
           /\ env' = [h.env EXCEPT !.waiting = h.started.waiting,
                                   !.built = h.started.built,
                                   !.answers = 0]
           /\ pc' = h.started.promise.state
    /\ UNCHANGED fn

\* copyRichHtml settles: the clipboard took the item, or the execCommand
\* fall-back ran, or the fall-back threw and copyForWord's catch answers.
ClipboardSettles ==
    /\ pc = "pending"
    /\ env.waiting = "clipboard"
    /\ \E result \in {Success, Failure(CopyFailedMessage)} :
           ret' = Returned(Resolved(result))
    /\ env' = [env EXCEPT !.waiting = "none"]
    /\ pc' = "resolved"
    /\ UNCHANGED <<fn, arg, dom>>

\* buildDocx settles: the blob is downloaded, or the catch block answers.
BuildDocxSettles ==
    /\ pc = "pending"
    /\ env.waiting = "buildDocx"
    /\ \/ \E made \in {downloadBlob(dom, env.built[1], "chatgpt-response-<timestamp>.docx")} :
              /\ dom' = made.dom
              /\ env' = [env EXCEPT !.waiting = "none", !.built = <<>>,
                                    !.timers = @ + 1,
                                    !.records = Added(env.observers, TRUE, @)]
              /\ ret' = Returned(Resolved(Success))
       \/ \E e \in BuildErrors :
              /\ dom' = dom
              /\ env' = [env EXCEPT !.waiting = "none", !.built = <<>>]
              /\ ret' = Returned(Resolved(exportCaught(e)))
    /\ pc' = "resolved"
    /\ UNCHANGED <<fn, arg>>

\* The promise of handleMessage is resolved: sendResponse is called with its
\* value, and the listener's call is over.
SendResponse ==
    /\ pc = "resolved"
    /\ env' = [env EXCEPT !.answers = @ + 1]
    /\ pc' = "idle"
    /\ UNCHANGED <<fn, arg, ret, dom>>

\* One second after a download its <a> leaves the page.
AnchorRemoved ==
    /\ env.timers > 0
    /\ dom' = [dom EXCEPT !.kids = SelectSeq(@, LAMBDA n : n # Anchor)]
    /\ env' = [env EXCEPT !.timers = @ - 1,
                          !.records = Removed(env.observers, TRUE, @)]
    /\ UNCHANGED <<fn, arg, ret, pc>>

\* The script among the events of the page: storage, timers, the observer,
\* new turns, and changes of the settings.
NextContent ==
    \/ StorageGetResolves \/ StorageGetRejects
    \/ DomContentLoaded \/ SetupTimerFires
    \/ ObserverCallback \/ DebounceFires
    \/ PageAddsTurn
    \/ DeliverMessage(SettingsMessages) \/ SendResponse

SpecContent == InitContent /\ [][NextContent]_vars

\* The listener with every message, on a page that stands still.  A pending
\* promise of the clipboard or of buildDocx settles, and a resolved promise
\* runs its reaction.
NextListener ==
    \/ DeliverMessage(Messages) \/ ClipboardSettles \/ BuildDocxSettles
    \/ SendResponse \/ AnchorRemoved

SpecListener ==
    /\ InitContent /\ [][NextListener]_vars
    /\ WF_vars(ClipboardSettles) /\ WF_vars(BuildDocxSettles) /\ WF_vars(SendResponse)

\* ------------------------------------------------- content.js: claims

\* C26: while showButtons is false, no step of the script adds a button
\* container to the page.
C26_NoInjectionWhileHidden ==
    [][(~env.settings.showButtons /\ ~env'.settings.showButtons)
           => Containers(dom') <= Containers(dom)]_vars

\* A settingsChanged message that leaves showButtons false leaves no container.
HidingRemovesContainers ==
    [][(pc = "idle" /\ pc' = "resolved" /\ arg'.type = "settingsChanged"
            /\ ~env'.settings.showButtons) => Containers(dom') = 0]_vars
\* Containers stand on the page although showButtons is false.
ShownWhileHidden == ~env.settings.showButtons /\ Containers(dom) > 0

\* C27: every assistant message holds at most one button container, at most
\* one MutationObserver was created, and processMessages on a page it has gone
\* through inserts nothing more.
C27_OneContainerOneObserver ==
    /\ \E messages \in {getAssistantMessages(dom)} :
           \A i \in 1..Len(messages) : Containers(NodeAt(dom, messages[i])) <= 1
    /\ env.observers <= 1
    /\ \E once \in {processMessages(dom)} : processMessages(once) = once

\* Both calls of injectButtons at load have run on a page with two assistant
\* messages, and the observer has handed on what it saw.
C27_Witness ==
    /\ env.setup = "done" /\ env.storage = "done" /\ env.settings.showButtons
    /\ env.observers = 1 /\ env.records = NoRecords /\ ~env.debounce
    /\ Len(getAssistantMessages(dom)) = 2
    /\ Containers(dom) = 2

\* The listener's call is over and sendResponse was called.
Answered == pc = "idle" /\ arg # NoMessage

\* C30: the promise of handleMessage is never rejected; sendResponse is called
\* once for a message, with an object whose success field is a boolean; a
\* message of an unknown type is answered with the failure 'Unknown message
\* type', the settings and the page as they were; and every message handed to
\* the listener is answered in the end.
C30_EveryMessageAnsweredOnce ==
    /\ [](pc # "rejected" /\ env.answers <= 1 /\ (Answered => env.answers = 1))
    /\ [][(pc = "resolved" /\ pc' = "idle")
              => env.answers = 0 /\ ret.val.with.success \in BOOLEAN]_vars
    /\ [][(pc = "idle" /\ pc' # "idle" /\ arg'.type \notin KnownTypes)
              => /\ ret' = Returned(Resolved(Failure(UnknownTypeMessage)))
                 /\ dom' = dom
                 /\ env'.settings = env.settings]_vars
    /\ (pc # "idle") ~> Answered

\* A message of an unknown type was answered, and so was one that had to wait
\* for the clipboard or for buildDocx.
C30_Witness ==
    /\ Answered
    /\ env.answers = 1
    /\ \/ arg.type \notin KnownTypes /\ ret.val.with = Failure(UnknownTypeMessage)
       \/ arg.type = "exportDocx" /\ ret.val.with = Success


====
